---------------------------- MODULE Spec2Model ----------------------------
(***************************************************************************)
(* News functions of the dashboard backend.                                *)
(*                                                                         *)
(*   - the cooldown/ETag news handler (src/unnamed/part_001:641-902, the   *)
(*     same logic as src/netlify/functions/news.js:94-271);                *)
(*   - the file-cache news handler (src/netlify/functions/news.mjs:208-446)*)
(*   - the blob-cache news handler (src/netlify/functions/news.mjs:1-206); *)
(*   - the helpers sanitizeArticles and norm on their own.                 *)
(*                                                                         *)
(* Strings are modelled by natural-number codes (0 is the empty string),   *)
(* times are milliseconds, an article list is a sequence of records.       *)
(***************************************************************************)
EXTENDS Integers, Sequences, FiniteSets, TLC

\* ------------------------------------------------------------------ bounds
\* How many clock steps a behaviour may take.
MaxTicks == 2

\* ------------------------------------------------------------ configuration
COOLDOWN_MS == 5 * 60 * 1000
TIMEOUT_MS == 7000
DEFAULT_SECTION == "frontpage"

\* The sections of MAP (PROVIDERS_BY_SECTION in news.js).
Sections == {"frontpage", "world", "tech", "finance"}

MAP(s) ==
  CASE s = "frontpage" -> <<"rss", "newsapi", "gnews", "newsdata">>
    [] s = "world"     -> <<"rss", "newsapi", "gnews", "newsdata">>
    [] s = "tech"      -> <<"rss", "newsapi", "gnews", "newsdata">>
    [] s = "finance"   -> <<"rss", "newsapi", "gnews", "finnhub">>

\* PROVIDERS of the file-cache handler.
PROVIDERS(s) ==
  CASE s = "frontpage" -> <<"newsapi", "gnews", "newsdata", "rss">>
    [] s = "world"     -> <<"newsapi", "gnews", "newsdata", "rss">>
    [] s = "tech"      -> <<"newsapi", "gnews", "newsdata", "rss">>
    [] s = "finance"   -> <<"newsapi", "gnews", "newsdata", "finnhub">>

Keys == {"NEWSAPI_KEY", "GNEWS_API_KEY", "NEWSDATA_KEY", "FINNHUB_API_KEY"}

\* The environment variable a provider needs ("" for the keyless rss).
KeyOf(p) ==
  CASE p = "newsapi"  -> "NEWSAPI_KEY"
    [] p = "gnews"    -> "GNEWS_API_KEY"
    [] p = "newsdata" -> "NEWSDATA_KEY"
    [] p = "finnhub"  -> "FINNHUB_API_KEY"
    [] OTHER          -> ""

\* The clock advances in steps of half the cooldown; the process starts at a
\* time at which the epoch (lastTriedAt 0) is far outside every window.
TickMs == COOLDOWN_MS \div 2
StartNow == 2 * COOLDOWN_MS

\* ----------------------------------------------------------------- articles
\* An element of a provider's result: nul marks a null (norm returned null);
\* title and url are string codes (0: empty or missing), frag the code of the
\* part of the url after '#', publishedAt a time in ms (-1: missing or
\* unparsable).
Art(t, u, f, at) == [nul |-> FALSE, title |-> t, url |-> u, frag |-> f, publishedAt |-> at]
NullArt == [nul |-> TRUE, title |-> 0, url |-> 0, frag |-> 0, publishedAt |-> -1]

A1 == Art(1, 1, 0, 2000)
A2 == Art(2, 2, 0, 3000)
A1f == Art(3, 1, 7, 4000)
ANoTitle == Art(0, 5, 0, 5000)
ANoDate == Art(4, 4, 0, -1)
ANoDate2 == Art(7, 7, 0, -1)
\* A url that is only a fragment ("#top"): truthy, but empty up to '#'.
AFragOnly == Art(5, 0, 9, 6000)
\* A time between the clock's first and last value.
ALate == Art(6, 6, 0, 700000)
\* The same time as A2 under another url.
ATie == Art(8, 8, 0, 3000)

\* toISO: a missing or unparsable time becomes the current time.
toISO(t, clock) == IF t < 0 THEN clock ELSE t

\* .filter(Boolean).filter(a => a?.title && a?.url).map(... toISO(a.publishedAt) ...)
RECURSIVE FilterMap(_, _)
FilterMap(arr, clock) ==
  IF arr = <<>> THEN <<>>
  ELSE LET a == Head(arr)
           rest == FilterMap(Tail(arr), clock)
       IN IF a.nul \/ a.title = 0 \/ (a.url = 0 /\ a.frag = 0)
          THEN rest
          ELSE <<[a EXCEPT !.publishedAt = toISO(a.publishedAt, clock)]>> \o rest

\* The dedupe loop: k is the url up to '#'; an empty k or one seen is skipped.
RECURSIVE Dedupe(_, _)
Dedupe(list, seen) ==
  IF list = <<>> THEN <<>>
  ELSE LET it == Head(list)
           k == it.url
       IN IF k = 0 \/ k \in seen
          THEN Dedupe(Tail(list), seen)
          ELSE <<it>> \o Dedupe(Tail(list), seen \cup {k})

\* out.sort((a, b) => new Date(b.publishedAt) - new Date(a.publishedAt)):
\* newest first, stable.
RECURSIVE InsertDesc(_, _)
InsertDesc(x, sorted) ==
  IF sorted = <<>> THEN <<x>>
  ELSE IF Head(sorted).publishedAt >= x.publishedAt
       THEN <<Head(sorted)>> \o InsertDesc(x, Tail(sorted))
       ELSE <<x>> \o sorted

\* (An operator's argument is evaluated anew at each of its uses when TLC
\* evaluates ENABLED; a value drawn from a one-element set is computed once.
\* CHOOSE r \in {F(v) : v \in {e}} : TRUE is F(e).)
RECURSIVE SortDesc(_)
SortDesc(list) ==
  IF list = <<>> THEN <<>>
  ELSE CHOOSE r \in {InsertDesc(list[Len(list)], sorted) :
                       sorted \in {SortDesc(SubSeq(list, 1, Len(list) - 1))}} : TRUE

\* Variant: the list is not sorted.
sanitizeArticles_unsorted(arr, clock) == Dedupe(FilterMap(arr, clock), {})

\* Variant: the list is not deduplicated.
sanitizeArticles_noDedupe(arr, clock) == SortDesc(FilterMap(arr, clock))

\* Variant: every record is stamped with the current time.
sanitizeArticles_restamp(arr, clock) ==
  LET l == Dedupe(FilterMap(arr, clock), {})
  IN SortDesc([i \in 1..Len(l) |-> [l[i] EXCEPT !.publishedAt = clock]])

sanitizeArticles(arr, clock) ==
  CHOOSE r \in {SortDesc(out) : out \in {Dedupe(list, {}) : list \in {FilterMap(arr, clock)}}} : TRUE

\* A title or url argument of norm: null/undefined (nul), or a string made
\* of a core (code 0: nothing) with or without surrounding whitespace (pad).
Str(core, pad) == [nul |-> FALSE, core |-> core, pad |-> pad]
NullStr == [nul |-> TRUE, core |-> 0, pad |-> FALSE]

\* !x is false for every non-empty string, also for "   ".
Truthy(x) == ~x.nul /\ (x.core # 0 \/ x.pad)

\* String(x).trim(), as a string code.
Trimmed(x) == x.core

\* norm(title, url, source, summary, ts): null when title or url is falsy,
\* else the record with both trimmed.
norm(title, url, ts, clock) ==
  IF ~Truthy(title) \/ ~Truthy(url)
  THEN NullArt
  ELSE Art(Trimmed(title), Trimmed(url), 0, toISO(ts, clock))

\* -------------------------------------------------------------------- ETag
\* JSON.stringify of an article list, as a sequence of 16-bit character codes.
RECURSIVE Stringify(_)
Stringify(list) ==
  IF list = <<>> THEN <<>>
  ELSE LET a == Head(list)
       IN <<a.title, a.url, a.frag, a.publishedAt \div 65536, a.publishedAt % 65536>>
          \o Stringify(Tail(list))

\* Bitwise exclusive or of two naturals below 2^16.
Word == 0..65535
Xor[a \in Word, b \in Word] ==
  IF a = 0 THEN b
  ELSE IF b = 0 THEN a
  ELSE 2 * Xor[a \div 2, b \div 2] + ((a + b) % 2)

\* One round of FNV-1a on a 32-bit h kept as two 16-bit halves hi and lo:
\* h ^= c; h = Math.imul(h, 16777619), and 16777619 = 2^24 + 403.
FnvLo[lo \in Word, c \in Word] == (Xor[lo, c] * 403) % 65536
FnvHi[hi \in Word, lo \in Word, c \in Word] ==
  (hi * 403 + ((Xor[lo, c] * 403) \div 65536) + (Xor[lo, c] % 256) * 256) % 65536

RECURSIVE Fnv(_, _, _)
Fnv(hi, lo, s) ==
  IF s = <<>> THEN <<hi, lo>>
  ELSE CHOOSE r \in {Fnv(h[1], h[2], rest) :
                       h \in {<<FnvHi[hi, lo, Head(s)], FnvLo[lo, Head(s)]>>},
                       rest \in {Tail(s)}} : TRUE

\* 2166136261 = 33052 * 2^16 + 40389
FnvBasisHi == 33052
FnvBasisLo == 40389

\* An ETag string "W/<h>-<length>" is the triple of h's halves and the
\* length; <<>> is the empty string.
ETagString(s) ==
  CHOOSE etag \in {<<h[1], h[2], Len(s)>> : h \in {Fnv(FnvBasisHi, FnvBasisLo, s)}} : TRUE

makeETag(articles, clock) ==
  CHOOSE etag \in {ETagString(s) :
                    s \in {Stringify(list) : list \in {sanitizeArticles(articles, clock)}}} : TRUE

EmptyString == <<>>
\* No If-None-Match header (undefined).
Undefined == <<-1>>

\* ------------------------------------------------------------------- state
VARIABLES
  variant,    \* what runs: one of the news functions, a helper on its own,
              \* one of the market functions, add-link or the dashboard client
  env,        \* the API keys present in process.env
  now,        \* Date.now()
  ticks,      \* clock steps taken so far
  cache,      \* cooldown handler: section -> /tmp/cerf-news-<section>.json
  req,        \* cooldown handler: the invocation in progress
  okSeen,     \* sections for which a delivered response had status "ok"
  lastETag,   \* section -> ETag of the latest delivered 200 response
  lastTrav,   \* section -> time the latest provider-chain traversal began
  fcache,     \* file-cache handler: section -> /tmp/news-cache-<section>.json
  freq,       \* file-cache handler: the invocation in progress
  bstore,     \* blob-cache handler: section -> blob news/<section>.json
  breq,       \* blob-cache handler: the invocation in progress
  san,        \* sanitizeArticles applied to a list, and to its own output
  nrm,        \* norm applied to a title and a url
  mov,        \* topMovers applied to a universe, a quote map and a count
  creq,       \* cooldown handler: two invocations in one process, by number
  p3cache,    \* part_003 handler: section -> /tmp/news-cache-<section>.json
  p3req,      \* part_003 handler: the invocation in progress
  nstore,     \* nested-fallback handler: section -> blob <section>-articles
  nreq,       \* nested-fallback handler: the invocation in progress
  mcache,     \* market functions: the cache file /tmp/*-cache.json
  mreq,       \* market functions and add-link: the invocation in progress
  web         \* dashboard client: the page, localStorage and the server it polls

\* The variables of the news functions and helpers other than the one at hand.
cooldownVars == <<cache, req, okSeen, lastETag, lastTrav>>
fileVars == <<fcache, freq>>
blobVars == <<bstore, breq>>
helperVars == <<san, nrm, mov>>
part3Vars == <<p3cache, p3req>>
nestedVars == <<nstore, nreq>>
newsVars == <<cooldownVars, fileVars, blobVars, part3Vars, nestedVars, creq>>
marketVars == <<mcache, mreq>>

vars == <<variant, env, now, ticks, cache, req, okSeen, lastETag, lastTrav, fcache, freq,
          bstore, breq, san, nrm, mov, creq, p3cache, p3req, nstore, nreq, mcache, mreq,
          web>>

\* A cache file that does not exist.
NoFile == [exists |-> FALSE, articles |-> <<>>, etag |-> EmptyString, updatedAt |-> 0, lastTriedAt |-> 0]
\* What readCache returns when there is no file: null.
NullCache == [isNull |-> TRUE, articles |-> <<>>, etag |-> EmptyString, updatedAt |-> 0, lastTriedAt |-> 0]

NoOut == [kind |-> "none", raw |-> <<>>, late |-> FALSE]
NoGot == [some |-> FALSE, articles |-> <<>>, source |-> ""]
NoResp == [statusCode |-> 0, status |-> "", articles |-> <<>>, source |-> "", ETag |-> Undefined]

IdleReq ==
  [pc |-> "idle", raw |-> [word |-> "", caps |-> FALSE, pad |-> FALSE],
   section |-> DEFAULT_SECTION, clientETag |-> Undefined, cache |-> NullCache,
   idx |-> 0, log |-> <<>>, out |-> NoOut, got |-> NoGot, resp |-> NoResp]

\* ------------------------------------------------------------------ inputs
\* A section query parameter: a word, possibly written with capital letters
\* (caps) and possibly surrounded by whitespace (pad).  The word "" without
\* padding is the missing or empty parameter.
Param(w, caps, pad) == [word |-> w, caps |-> caps, pad |-> pad]
NoParam == Param("", FALSE, FALSE)

\* String.prototype.toLowerCase and String.prototype.trim on a parameter.
toLowerCase(x) == [x EXCEPT !.caps = FALSE]
trim(x) == [x EXCEPT !.pad = FALSE]

\* The section parameters requests carry: none, a section in capitals with
\* whitespace around it, "sports" (outside the whitelist).
SectionInputs ==
  { NoParam, Param("frontpage", TRUE, TRUE),
    Param("finance", FALSE, FALSE), Param("finance", TRUE, TRUE),
    Param("sports", FALSE, FALSE) }

\* The blob-cache handler's: also a blank parameter, padding alone, and
\* "constructor", a name every object inherits.
BlobSectionInputs ==
  SectionInputs \cup
    { Param("", FALSE, TRUE), Param("finance", FALSE, TRUE), Param("constructor", FALSE, FALSE) }

\* The environments a deployment may have.
EnvChoices == {{}, {"NEWSAPI_KEY"}, {"GNEWS_API_KEY", "FINNHUB_API_KEY"}, Keys}

\* An ETag no response ever carried.
BogusETag == <<0, 0, 0>>

\* What a provider's promise can settle to: a rejection (an exception, a
\* non-2xx status, an empty or malformed body: "throw"), no answer within
\* TIMEOUT_MS ("timeout"), or an array of normalised records.
RawLists == { <<>>, <<NullArt, ANoTitle>>, <<A1>>, <<A1, A2, A1f>> }

\* rss returns all.map(norm), possibly empty; the API providers throw on an
\* empty upstream list.
RawListsOf(p) == IF p = "rss" THEN RawLists ELSE RawLists \ {<<>>}

Outcomes(p) ==
  {[kind |-> "throw", raw |-> <<>>, late |-> FALSE], [kind |-> "timeout", raw |-> <<>>, late |-> FALSE]}
    \cup {[kind |-> "value", raw |-> r, late |-> FALSE] : r \in RawListsOf(p)}

\* What the promise of PROVIDERS[p](section, { signal }) does on its own: it
\* rejects ("throw") or resolves ("value") before TIMEOUT_MS have passed, it
\* never settles ("never"), or it resolves only after TIMEOUT_MS ("late").
Behaviours(p) ==
  {[kind |-> "throw", raw |-> <<>>], [kind |-> "never", raw |-> <<>>],
   [kind |-> "late", raw |-> <<ALate>>]}
    \cup {[kind |-> "value", raw |-> r] : r \in RawListsOf(p)}

\* Variant: the provider's promise is awaited with no timer beside it.
withTimeout_noTimer(b) ==
  [kind |-> IF b.kind = "late" THEN "value" ELSE b.kind, raw |-> b.raw, late |-> b.kind = "late"]

\* withTimeout(run, ms): the promise settles once, with whichever comes first
\* of the provider's settling and the timer's reject(new Error("timeout")); a
\* resolve after the timer fired changes nothing.
withTimeout(b) ==
  IF b.kind \in {"never", "late"}
  THEN [kind |-> "timeout", raw |-> <<>>, late |-> b.kind = "late"]
  ELSE [kind |-> b.kind, raw |-> b.raw, late |-> FALSE]

\* ------------------------------------------------- cooldown/ETag handler
\* x || DEFAULT_SECTION: only the empty (or missing) string is falsy.
OrDefault(x) == IF x = NoParam THEN Param(DEFAULT_SECTION, FALSE, FALSE) ELSE x

\* Object.prototype.hasOwnProperty.call(MAP, x) (SECTION_KEYS.has(x) in the
\* file-cache handler): x is, character for character, a key of MAP.
hasOwnProperty(x) == ~x.caps /\ ~x.pad /\ x.word \in Sections

\* Variant: the parameter is trimmed but not lower-cased.
SectionOf_noLower(raw) ==
  LET r == trim(OrDefault(raw))
  IN IF hasOwnProperty(r) THEN r.word ELSE DEFAULT_SECTION

\* Lines 660-661: (raw || DEFAULT_SECTION).toLowerCase().trim(), checked
\* against the keys of MAP.
SectionOf(raw) ==
  LET r == trim(toLowerCase(OrDefault(raw)))
  IN IF hasOwnProperty(r) THEN r.word ELSE DEFAULT_SECTION

readCache(s) ==
  IF ~cache[s].exists THEN NullCache
  ELSE [isNull |-> FALSE,
        articles |-> sanitizeArticles(cache[s].articles, now),
        etag |-> cache[s].etag,
        updatedAt |-> cache[s].updatedAt,
        lastTriedAt |-> cache[s].lastTriedAt]

\* Variant: the window is measured from the last successful write.
withinCooldown_updatedAt(c) == ~c.isNull /\ (now - c.updatedAt < COOLDOWN_MS)

\* Variant: the window includes its end point.
withinCooldown_le(c) == ~c.isNull /\ (now - c.lastTriedAt <= COOLDOWN_MS)

withinCooldown(c) == ~c.isNull /\ (now - c.lastTriedAt < COOLDOWN_MS)

\* Variant: the entry is not read back before it is written.
touchLastTried_fresh(s) ==
  [exists |-> TRUE, articles |-> <<>>, etag |-> EmptyString, updatedAt |-> 0, lastTriedAt |-> now]

\* Variant: the entry is written back without its ETag.
touchLastTried_noETag(s) ==
  LET m == readCache(s)
  IN [exists |-> TRUE, articles |-> m.articles, etag |-> EmptyString,
      updatedAt |-> m.updatedAt, lastTriedAt |-> now]

\* Variant: the entry keeps its ETag and loses its articles.
touchLastTried_dropArticles(s) ==
  LET m == readCache(s)
  IN [exists |-> TRUE, articles |-> <<>>, etag |-> m.etag,
      updatedAt |-> m.updatedAt, lastTriedAt |-> now]

\* The file touchLastTried writes: the entry read back, or a fresh one, with
\* lastTriedAt set.
touchLastTried(s) ==
  LET m == readCache(s)
  IN [exists |-> TRUE, articles |-> m.articles, etag |-> m.etag,
      updatedAt |-> m.updatedAt, lastTriedAt |-> now]

\* Variant: the ETag is left out of the file.
writeCache_noETag(articles, etag) ==
  [exists |-> TRUE, articles |-> sanitizeArticles(articles, now), etag |-> EmptyString,
   updatedAt |-> now, lastTriedAt |-> now]

\* The file writeCache writes.
writeCache(articles, etag) ==
  [exists |-> TRUE, articles |-> sanitizeArticles(articles, now), etag |-> etag,
   updatedAt |-> now, lastTriedAt |-> now]

json(status, msg) ==
  [statusCode |-> status, status |-> msg, articles |-> <<>>, source |-> "", ETag |-> Undefined]
jsonWithETag(articles, source, etag) ==
  [statusCode |-> 200, status |-> "ok", articles |-> articles, source |-> source, ETag |-> etag]
NotModified(etag) ==
  [statusCode |-> 304, status |-> "", articles |-> <<>>, source |-> "", ETag |-> etag]

\* Variant: no provider is skipped.
KeyMissing_never(p) == FALSE

\* if (p === "newsapi" && !process.env.NEWSAPI_KEY) continue; ...
KeyMissing(p) == KeyOf(p) # "" /\ KeyOf(p) \notin env

\* Lines 660-671: read the cache, answer from it inside the cooldown,
\* otherwise enter the provider loop.
Begin(raw, hdr) ==
  /\ variant = "cooldown"
  /\ req.pc = "idle"
  /\ LET section == SectionOf(raw)
         c == readCache(section)
         r0 == [IdleReq EXCEPT !.raw = raw, !.section = section, !.clientETag = hdr, !.cache = c]
     IN IF c.etag # EmptyString /\ hdr = c.etag /\ withinCooldown(c)
        THEN /\ req' = [r0 EXCEPT !.pc = "done", !.resp = NotModified(c.etag)]
             /\ UNCHANGED lastTrav
        ELSE IF withinCooldown(c) /\ Len(c.articles) > 0
        THEN /\ req' = [r0 EXCEPT !.pc = "done", !.resp = jsonWithETag(c.articles, "cache", c.etag)]
             /\ UNCHANGED lastTrav
        ELSE /\ req' = [r0 EXCEPT !.pc = "loop", !.idx = 1]
             /\ lastTrav' = [lastTrav EXCEPT ![section] = now]
  /\ UNCHANGED <<variant, mcache, mreq, web, mov, creq, p3cache, p3req, nstore, nreq, bstore, breq, san, nrm, env, now, ticks, cache, okSeen, lastETag, fcache, freq>>

\* Where the loop goes after provider number i of the chain did not deliver.
Continue(r, kind) ==
  [r EXCEPT !.log = Append(r.log, [p |-> MAP(r.section)[r.idx], kind |-> kind]),
            !.idx = r.idx + 1,
            !.pc = IF r.idx + 1 > Len(MAP(r.section)) THEN "after" ELSE "loop"]

\* Variant: no try/catch around the provider call; the rejection leaves the
\* handler.
Caught_rethrow(r, o) == [r EXCEPT !.pc = "crashed", !.out = o]

\* The catch block of the loop: the failure is logged, the loop goes on.
Caught(r, o) == [Continue(r, "fail") EXCEPT !.out = o]

\* Variant: no break after the first provider that delivered.
Iterate_noBreak(o) ==
  LET p == MAP(req.section)[req.idx]
  IN IF KeyMissing(p)
     THEN Continue(req, "skip")
     ELSE IF o.kind # "value"
     THEN Caught(req, o)
     ELSE LET cleaned == sanitizeArticles(o.raw, now)
          IN IF Len(cleaned) > 0
             THEN [Continue(req, "ok") EXCEPT
                     !.out = o,
                     !.got = [some |-> TRUE, articles |-> cleaned, source |-> p]]
             ELSE [Continue(req, "fail") EXCEPT !.out = o]

\* Variant: a result with no valid article counts as a success.
Iterate_acceptEmpty(o) ==
  LET p == MAP(req.section)[req.idx]
  IN IF KeyMissing(p)
     THEN Continue(req, "skip")
     ELSE IF o.kind # "value"
     THEN Caught(req, o)
     ELSE [req EXCEPT !.log = Append(req.log, [p |-> p, kind |-> "ok"]),
                      !.out = o,
                      !.got = [some |-> TRUE, articles |-> sanitizeArticles(o.raw, now), source |-> p],
                      !.pc = "after"]

\* One iteration of the for loop (lines 675-688).  An await on a promise that
\* never settles does not return.
IterateOn(r, o) ==
  LET p == MAP(r.section)[r.idx]
  IN IF KeyMissing(p)
     THEN Continue(r, "skip")
     ELSE IF o.kind = "never"
     THEN [r EXCEPT !.pc = "pending", !.out = o]
     ELSE IF o.kind # "value"
     THEN Caught(r, o)
     ELSE LET cleaned == sanitizeArticles(o.raw, now)
          IN IF Len(cleaned) > 0
             THEN [r EXCEPT !.log = Append(r.log, [p |-> p, kind |-> "ok"]),
                            !.out = o,
                            !.got = [some |-> TRUE, articles |-> cleaned, source |-> p],
                            !.pc = "after"]
             ELSE [Continue(r, "fail") EXCEPT !.out = o]

Iterate(o) == IterateOn(req, o)

\* (raw is not read after line 661: the loop forgets it.)
LoopStep ==
  /\ variant = "cooldown"
  /\ req.pc = "loop"
  /\ \E b \in Behaviours(MAP(req.section)[req.idx]) :
       req' = [Iterate(withTimeout(b)) EXCEPT !.raw = IdleReq.raw]
  /\ UNCHANGED <<variant, mcache, mreq, web, mov, creq, p3cache, p3req, nstore, nreq, bstore, breq, san, nrm, env, now, ticks, cache, okSeen, lastETag, lastTrav, fcache, freq>>

\* Variant: no cache fallback after the chain is exhausted.
Respond_noFallback(r, etag) ==
  IF r.got.some
  THEN jsonWithETag(r.got.articles, r.got.source, etag)
  ELSE json(502, "error")

\* Variant: a soft-empty "ok" payload instead of the 502.
Respond_softEmpty(r, etag) ==
  IF r.got.some
  THEN jsonWithETag(r.got.articles, r.got.source, etag)
  ELSE IF Len(r.cache.articles) > 0
  THEN IF r.clientETag # Undefined /\ r.cache.etag # EmptyString /\ r.clientETag = r.cache.etag
       THEN NotModified(r.cache.etag)
       ELSE jsonWithETag(r.cache.articles, "cache", r.cache.etag)
  ELSE jsonWithETag(<<>>, "cache", EmptyString)

\* Variant: a provider's articles are tagged "live", as the blob-cache
\* handler tags them.
Respond_liveSource(r, etag) ==
  IF r.got.some
  THEN jsonWithETag(r.got.articles, "live", etag)
  ELSE IF Len(r.cache.articles) > 0
  THEN IF r.clientETag # Undefined /\ r.cache.etag # EmptyString /\ r.clientETag = r.cache.etag
       THEN NotModified(r.cache.etag)
       ELSE jsonWithETag(r.cache.articles, "cache", r.cache.etag)
  ELSE json(502, "error")

\* The response of lines 692-705, given the snapshot read at the start.
Respond(r, etag) ==
  IF r.got.some
  THEN jsonWithETag(r.got.articles, r.got.source, etag)
  ELSE IF Len(r.cache.articles) > 0
  THEN IF r.clientETag # Undefined /\ r.cache.etag # EmptyString /\ r.clientETag = r.cache.etag
       THEN NotModified(r.cache.etag)
       ELSE jsonWithETag(r.cache.articles, "cache", r.cache.etag)
  ELSE json(502, "error")

\* Variant: the provider's articles are not written, only lastTriedAt is.
Stored_touchOnly(r, etag) == touchLastTried(r.section)

\* The file after lines 690-696.
Stored(r, etag) ==
  IF r.got.some THEN writeCache(r.got.articles, etag) ELSE touchLastTried(r.section)

\* Lines 690-705: touchLastTried, then writeCache and the response.
After ==
  /\ variant = "cooldown"
  /\ req.pc = "after"
  /\ LET etag == makeETag(req.got.articles, now)
     IN /\ cache' = [cache EXCEPT ![req.section] = Stored(req, etag)]
        /\ req' = [req EXCEPT !.pc = "done", !.resp = Respond(req, etag)]
  /\ UNCHANGED <<variant, mcache, mreq, web, mov, creq, p3cache, p3req, nstore, nreq, bstore, breq, san, nrm, env, now, ticks, okSeen, lastETag, lastTrav, fcache, freq>>

\* The response reaches the client.
Deliver ==
  /\ variant = "cooldown"
  /\ req.pc = "done"
  /\ req' = IdleReq
  /\ okSeen' = IF req.resp.status = "ok" THEN okSeen \cup {req.section} ELSE okSeen
  /\ lastETag' = IF req.resp.statusCode = 200
                 THEN [lastETag EXCEPT ![req.section] = req.resp.ETag]
                 ELSE lastETag
  /\ UNCHANGED <<variant, mcache, mreq, web, mov, creq, p3cache, p3req, nstore, nreq, bstore, breq, san, nrm, env, now, ticks, cache, lastTrav, fcache, freq>>

\* --------------------------------------------------- file-cache handler
\* (news.mjs:208-446: no cooldown, no ETag; the cache file holds the list.)
FileNoFile == [exists |-> FALSE, articles |-> <<>>]
FileIdle ==
  [pc |-> "idle", section |-> DEFAULT_SECTION, idx |-> 0, log |-> <<>>, out |-> NoOut, resp |-> NoResp]

nodeJson(status, msg, articles, source) ==
  [statusCode |-> status, status |-> msg, articles |-> articles, source |-> source, ETag |-> Undefined]

\* readCache of news.mjs: the sanitized list of the file, or null (here <<>>:
\* the handler only asks cachedArticles?.length).
fileReadCache(s) ==
  IF fcache[s].exists THEN sanitizeArticles(fcache[s].articles, now) ELSE <<>>

fileWriteCache(articles) == [exists |-> TRUE, articles |-> sanitizeArticles(articles, now)]

\* Lines 228-230.
FileBegin(raw) ==
  /\ variant = "file"
  /\ freq.pc = "idle"
  /\ freq' = [FileIdle EXCEPT !.pc = "loop", !.section = SectionOf(raw), !.idx = 1]
  /\ UNCHANGED <<variant, mcache, mreq, web, mov, creq, p3cache, p3req, nstore, nreq, bstore, breq, san, nrm, env, now, ticks, cache, req, okSeen, lastETag, lastTrav, fcache>>

\* The catch block of lines 248-250: log, go on with the next provider, and
\* leave the loop for the cache after the last one.
FileCaught(r, kind, o) ==
  [r EXCEPT !.log = Append(r.log, [p |-> PROVIDERS(r.section)[r.idx], kind |-> kind]),
            !.out = o,
            !.idx = r.idx + 1,
            !.pc = IF r.idx + 1 > Len(PROVIDERS(r.section)) THEN "fallback" ELSE "loop"]

\* One iteration of lines 232-251: a missing key throws before the call; a
\* provider with at least one valid article writes the cache and returns.
FileLoopStep ==
  /\ variant = "file"
  /\ freq.pc = "loop"
  /\ LET p == PROVIDERS(freq.section)[freq.idx]
     IN IF KeyMissing(p)
        THEN /\ freq' = FileCaught(freq, "skip", freq.out)
             /\ UNCHANGED fcache
        ELSE \E b \in Behaviours(p) :
               LET o == withTimeout(b)
                   cleaned == sanitizeArticles(o.raw, now)
               IN IF o.kind = "never"
                  THEN /\ freq' = [freq EXCEPT !.pc = "pending", !.out = o]
                       /\ UNCHANGED fcache
                  ELSE IF o.kind = "value" /\ Len(cleaned) > 0
                  THEN /\ fcache' = [fcache EXCEPT ![freq.section] = fileWriteCache(cleaned)]
                       /\ freq' = [freq EXCEPT
                                     !.log = Append(freq.log, [p |-> p, kind |-> "ok"]),
                                     !.out = o,
                                     !.pc = "done",
                                     !.resp = nodeJson(200, "ok", cleaned, p)]
                  ELSE /\ freq' = FileCaught(freq, "fail", o)
                       /\ UNCHANGED fcache
  /\ UNCHANGED <<variant, mcache, mreq, web, mov, creq, p3cache, p3req, nstore, nreq, bstore, breq, san, nrm, env, now, ticks, cache, req, okSeen, lastETag, lastTrav>>

\* Lines 253-258: the cached list, or the 502.
FileRespond(cachedArticles) ==
  IF Len(cachedArticles) > 0
  THEN nodeJson(200, "ok", cachedArticles, "cache")
  ELSE nodeJson(502, "error", <<>>, "")

FileFallback ==
  /\ variant = "file"
  /\ freq.pc = "fallback"
  /\ freq' = [freq EXCEPT !.pc = "done", !.resp = FileRespond(fileReadCache(freq.section))]
  /\ UNCHANGED <<variant, mcache, mreq, web, mov, creq, p3cache, p3req, nstore, nreq, bstore, breq, san, nrm, env, now, ticks, cache, req, okSeen, lastETag, lastTrav, fcache>>

FileDeliver ==
  /\ variant = "file"
  /\ freq.pc = "done"
  /\ freq' = FileIdle
  /\ UNCHANGED <<variant, mcache, mreq, web, mov, creq, p3cache, p3req, nstore, nreq, bstore, breq, san, nrm, env, now, ticks, cache, req, okSeen, lastETag, lastTrav, fcache>>

\* --------------------------------------------------- blob-cache handler
\* (news.mjs:1-206, the default export: fresh fetch, then the blob store.)
MAX_ITEMS == 25

\* PROVIDERS of the blob-cache handler (the same lists as the file-cache
\* handler's).
BlobPROVIDERS(s) ==
  CASE s = "frontpage" -> <<"newsapi", "gnews", "newsdata", "rss">>
    [] s = "world"     -> <<"newsapi", "gnews", "newsdata", "rss">>
    [] s = "tech"      -> <<"newsapi", "gnews", "newsdata", "rss">>
    [] s = "finance"   -> <<"newsapi", "gnews", "newsdata", "finnhub">>

\* The lower-case names every object inherits from Object.prototype.
Inherited == {"constructor", "__proto__"}

\* What PROVIDERS[section] evaluates to: one of the four arrays, a value
\* inherited from Object.prototype (truthy, not iterable), or undefined.
Lookup(x) ==
  IF x.caps \/ x.pad THEN "undefined"
  ELSE IF x.word \in Sections THEN "array"
  ELSE IF x.word \in Inherited THEN "inherited"
  ELSE "undefined"

NoBlob == [exists |-> FALSE, articles |-> <<>>, source |-> ""]
BlobIdle ==
  [pc |-> "idle", section |-> NoParam, lookup |-> "", idx |-> 0, calls |-> 0,
   reads |-> 0, writes |-> 0, resp |-> NoResp]

\* items.filter(Boolean)
RECURSIVE FilterBoolean(_)
FilterBoolean(items) ==
  IF items = <<>> THEN <<>>
  ELSE IF Head(items).nul THEN FilterBoolean(Tail(items))
  ELSE <<Head(items)>> \o FilterBoolean(Tail(items))

\* articles.slice(0, MAX_ITEMS)
Slice(articles) == SubSeq(articles, 1, IF Len(articles) < MAX_ITEMS THEN Len(articles) ELSE MAX_ITEMS)

\* Lines 18-20: the section, lower-cased, and the 400 for an unknown one.
BlobBegin(raw) ==
  /\ variant = "blob"
  /\ breq.pc = "idle"
  /\ LET x == toLowerCase(OrDefault(raw))
         r0 == [BlobIdle EXCEPT !.section = x, !.lookup = Lookup(x)]
     IN IF Lookup(x) = "undefined"
        THEN breq' = [r0 EXCEPT !.pc = "done", !.resp = json(400, "error")]
        ELSE breq' = [r0 EXCEPT !.pc = "fetch", !.idx = 1]
  /\ UNCHANGED <<variant, mcache, mreq, web, mov, creq, p3cache, p3req, nstore, nreq, bstore, san, nrm, env, now, ticks, cache, req, okSeen, lastETag, lastTrav, fcache, freq>>

\* The payload of lines 32-35, stored and returned.
BlobLive(articles) ==
  [statusCode |-> 200, status |-> "ok", articles |-> Slice(articles), source |-> "live", ETag |-> Undefined]

\* What PROVIDER_IMPL[p](section) does: as before, or the list of an upstream
\* whose records all lack a title or a url, each mapped to null by norm.
BlobOutcomes(p) ==
  Outcomes(p) \cup {[kind |-> "value", raw |-> <<NullArt, NullArt>>, late |-> FALSE]}

\* One step of fetchSection (lines 50-60) and of lines 26-36 after it: a
\* value that is not iterable makes for..of throw, a provider without its
\* key throws inside, a provider with items ends the loop.
BlobFetchStep ==
  /\ variant = "blob"
  /\ breq.pc = "fetch"
  /\ IF breq.lookup = "inherited"
     THEN /\ breq' = [breq EXCEPT !.pc = "cache"]
          /\ UNCHANGED bstore
     ELSE LET p == BlobPROVIDERS(breq.section.word)[breq.idx]
              next == [breq EXCEPT
                         !.calls = breq.calls + 1,
                         !.idx = breq.idx + 1,
                         !.pc = IF breq.idx + 1 > Len(BlobPROVIDERS(breq.section.word))
                                THEN "cache" ELSE "fetch"]
          IN IF KeyMissing(p)
             THEN /\ breq' = next
                  /\ UNCHANGED bstore
             ELSE \E o \in BlobOutcomes(p) :
                    IF o.kind = "value" /\ Len(o.raw) > 0
                    THEN LET articles == FilterBoolean(o.raw)
                         IN IF Len(articles) > 0
                            THEN /\ bstore' = [bstore EXCEPT ![breq.section.word] =
                                                 [exists |-> TRUE, articles |-> Slice(articles), source |-> "live"]]
                                 /\ breq' = [breq EXCEPT !.calls = breq.calls + 1,
                                                         !.writes = breq.writes + 1,
                                                         !.pc = "done",
                                                         !.resp = BlobLive(articles)]
                            ELSE /\ breq' = [breq EXCEPT !.calls = breq.calls + 1, !.pc = "cache"]
                                 /\ UNCHANGED bstore
                    ELSE /\ breq' = next
                         /\ UNCHANGED bstore
  /\ UNCHANGED <<variant, mcache, mreq, web, mov, creq, p3cache, p3req, nstore, nreq, san, nrm, env, now, ticks, cache, req, okSeen, lastETag, lastTrav, fcache, freq>>

\* store.get(cacheKey): a blob exists only under the keys the handler wrote.
BlobGet(section) == IF section.word \in Sections THEN bstore[section.word] ELSE NoBlob

\* Lines 39-45: the durable cache, or the 502.
BlobCache ==
  /\ variant = "blob"
  /\ breq.pc = "cache"
  /\ LET cached == BlobGet(breq.section)
     IN breq' = [breq EXCEPT
                   !.reads = breq.reads + 1,
                   !.pc = "done",
                   !.resp = IF cached.exists /\ Len(cached.articles) > 0
                            THEN [statusCode |-> 200, status |-> "ok", articles |-> cached.articles,
                                  source |-> "cache", ETag |-> Undefined]
                            ELSE json(502, "error")]
  /\ UNCHANGED <<variant, mcache, mreq, web, mov, creq, p3cache, p3req, nstore, nreq, bstore, san, nrm, env, now, ticks, cache, req, okSeen, lastETag, lastTrav, fcache, freq>>

BlobDeliver ==
  /\ variant = "blob"
  /\ breq.pc = "done"
  /\ breq' = BlobIdle
  /\ UNCHANGED <<variant, mcache, mreq, web, mov, creq, p3cache, p3req, nstore, nreq, bstore, san, nrm, env, now, ticks, cache, req, okSeen, lastETag, lastTrav, fcache, freq>>

\* --------------------------------------------------- the helpers alone
\* The longest list handed to sanitizeArticles.
MaxLen == 3

\* The records a list may hold.
Items == {NullArt, A1, A2, A1f, ANoTitle, ANoDate, ANoDate2, AFragOnly, ALate, ATie}

RECURSIVE ListsUpTo(_)
ListsUpTo(n) ==
  IF n = 0 THEN {<<>>}
  ELSE LET shorter == ListsUpTo(n - 1)
       IN shorter \cup {Append(l, x) : l \in {m \in shorter : Len(m) = n - 1}, x \in Items}

SanIdle == [pc |-> "off", arr |-> <<>>, once |-> <<>>, at |-> 0, twice |-> <<>>]

\* sanitizeArticles(arr)
SanitizeOnce ==
  /\ variant = "sanitize"
  /\ san.pc = "start"
  /\ san' = [san EXCEPT !.pc = "once", !.once = sanitizeArticles(san.arr, now), !.at = now]
  /\ UNCHANGED <<variant, mcache, mreq, web, mov, creq, p3cache, p3req, nstore, nreq, bstore, breq, nrm, env, now, ticks, cache, req, okSeen, lastETag, lastTrav, fcache, freq>>

\* sanitizeArticles(sanitizeArticles(arr)), as readCache and writeCache do
\* with a list that was sanitized before.
SanitizeTwice ==
  /\ variant = "sanitize"
  /\ san.pc = "once"
  /\ san' = [san EXCEPT !.pc = "twice", !.twice = sanitizeArticles(san.once, now)]
  /\ UNCHANGED <<variant, mcache, mreq, web, mov, creq, p3cache, p3req, nstore, nreq, bstore, breq, nrm, env, now, ticks, cache, req, okSeen, lastETag, lastTrav, fcache, freq>>

\* The title and url arguments of norm: null, "", "   ", "a", " a ".
Strs == {NullStr, Str(0, FALSE), Str(0, TRUE), Str(1, FALSE), Str(1, TRUE), Str(2, FALSE)}
Stamps == {-1, 2000}

NrmIdle == [pc |-> "off", title |-> NullStr, url |-> NullStr, ts |-> -1, out |-> NullArt]

\* norm(title, url, source, summary, ts)
Norm ==
  /\ variant = "norm"
  /\ nrm.pc = "start"
  /\ nrm' = [nrm EXCEPT !.pc = "normed", !.out = norm(nrm.title, nrm.url, nrm.ts, now)]
  /\ UNCHANGED <<variant, mcache, mreq, web, mov, creq, p3cache, p3req, nstore, nreq, bstore, breq, san, env, now, ticks, cache, req, okSeen, lastETag, lastTrav, fcache, freq>>

\* ---------------------------------------------------------------------------
\* topMovers (market-data.js 225-235; part_012 65-68 and part_010 106-114 are
\* the same function under other parameter names).  A quote is a record with
\* its dp; the fields c and d are copied through and play no part.
\* ---------------------------------------------------------------------------
Tickers == {"A", "B", "C", "D"}

NoQuote == [has |-> FALSE, typ |-> "undefined", dp |-> 0]
Num(n) == [has |-> TRUE, typ |-> "number", dp |-> n]
NaN == [has |-> TRUE, typ |-> "NaN", dp |-> 0]
Infinity == [has |-> TRUE, typ |-> "Infinity", dp |-> 0]
NullDp == [has |-> TRUE, typ |-> "null", dp |-> 0]

\* q && typeof q.dp === 'number' && Number.isFinite(q.dp)
isFinite(q) == q.has /\ q.typ = "number"

abs(n) == IF n < 0 THEN 0 - n ELSE n

\* rows.sort((a, b) => Math.abs(b.dp) - Math.abs(a.dp)), a stable sort: a row
\* goes behind every row whose |dp| is not smaller.
RECURSIVE InsertAbs(_, _)
InsertAbs(r, sorted) ==
  IF sorted = <<>> THEN <<r>>
  ELSE IF abs(Head(sorted).dp) >= abs(r.dp)
       THEN <<Head(sorted)>> \o InsertAbs(r, Tail(sorted))
       ELSE <<r>> \o sorted

\* The same sort with the comparator b.dp - a.dp.
RECURSIVE InsertSigned(_, _)
InsertSigned(r, sorted) ==
  IF sorted = <<>> THEN <<r>>
  ELSE IF Head(sorted).dp >= r.dp
       THEN <<Head(sorted)>> \o InsertSigned(r, Tail(sorted))
       ELSE <<r>> \o sorted

RECURSIVE Rows(_, _)
Rows(tickers, quoteMap) ==
  IF tickers = <<>> THEN <<>>
  ELSE LET t == Head(tickers)
           q == quoteMap[t]
       IN (IF isFinite(q) THEN <<[ticker |-> t, dp |-> q.dp]>> ELSE <<>>)
          \o Rows(Tail(tickers), quoteMap)

RECURSIVE SortAbs(_)
SortAbs(rows) ==
  IF rows = <<>> THEN <<>>
  ELSE InsertAbs(rows[Len(rows)], SortAbs(SubSeq(rows, 1, Len(rows) - 1)))

RECURSIVE SortSigned(_)
SortSigned(rows) ==
  IF rows = <<>> THEN <<>>
  ELSE InsertSigned(rows[Len(rows)], SortSigned(SubSeq(rows, 1, Len(rows) - 1)))

\* rows.slice(0, count), for a count that is not negative
slice(rows, count) == SubSeq(rows, 1, IF Len(rows) < count THEN Len(rows) ELSE count)

topMovers_signed(tickers, quoteMap, count) == slice(SortSigned(Rows(tickers, quoteMap)), count)

topMovers(tickers, quoteMap, count) == slice(SortAbs(Rows(tickers, quoteMap)), count)

\* The inputs: universes of distinct tickers in both orders, a quote map in
\* which every ticker may have a finite dp, no quote or a dp that is not a
\* finite number, and the counts none, some and more than there are tickers.
Universes == {<<>>, <<"B", "D">>, <<"A", "B", "C", "D">>, <<"D", "C", "B", "A">>}
QuoteMaps ==
  {[t \in Tickers |-> CASE t = "A" -> a [] t = "B" -> b [] t = "C" -> c [] OTHER -> d] :
     a \in {Num(1), Num(2), NoQuote},
     b \in {Num(-5), Num(-2), NullDp},
     c \in {Num(2), Num(-2), Num(1)},
     d \in {NaN, NullDp, NoQuote, Infinity, Num(2)}}
Counts == {0, 2, Cardinality(Tickers) + 1}

MovIdle == [pc |-> "off", universe |-> <<>>, map |-> [t \in Tickers |-> NoQuote],
            count |-> 0, out |-> <<>>]

TopMovers ==
  /\ variant = "movers"
  /\ mov.pc = "start"
  /\ mov' = [mov EXCEPT !.pc = "done", !.out = topMovers(mov.universe, mov.map, mov.count)]
  /\ UNCHANGED <<variant, mcache, mreq, web, env, now, ticks, cooldownVars, fileVars, blobVars, san, nrm,
                 creq, part3Vars, nestedVars>>

\* ---------------------------------------------------------------------------
\* The cooldown/ETag handler under two invocations in one Node process.  The
\* code of an invocation runs without interruption from one await to the
\* next: lines 659-683 up to the first provider call (the providers without
\* a key are passed over on the way), and from the settling of a provider
\* call to the next call or, after the last one, through lines 690-705 to the
\* return.  The fs calls are synchronous.  Both invocations ask for the
\* default section.
\* ---------------------------------------------------------------------------
Invocations == {1, 2}

\* The iterations that continue without an await.
RECURSIVE SkipAhead(_)
SkipAhead(r) ==
  IF r.pc = "loop" /\ KeyMissing(MAP(r.section)[r.idx])
  THEN SkipAhead(Continue(r, "skip"))
  ELSE r

\* Lines 690-705 for invocation i, arrived after the loop as r.
RaceFinish(i, r) ==
  LET etag == makeETag(r.got.articles, now)
  IN /\ cache' = [cache EXCEPT ![r.section] = Stored(r, etag)]
     /\ creq' = [creq EXCEPT ![i] = [r EXCEPT !.pc = "done", !.resp = Respond(r, etag)]]

\* An invocation runs up to where it stands still: awaiting a provider, or
\* returned.
RaceRunOn(i, r0) ==
  LET r == SkipAhead(r0)
  IN IF r.pc = "after"
     THEN RaceFinish(i, r)
     ELSE /\ creq' = [creq EXCEPT ![i] = r]
          /\ UNCHANGED cache

\* A cache file an earlier invocation wrote at time 0, more than COOLDOWN_MS
\* before the two invocations start: no time passes while they run.
OldEntry ==
  [exists |-> TRUE, articles |-> sanitizeArticles(<<A1>>, 0), etag |-> makeETag(<<A1>>, 0),
   updatedAt |-> 0, lastTriedAt |-> 0]

\* The If-None-Match a client may send: none, or the ETag of the file.
RaceClientETags(s) == {Undefined} \cup ({cache[s].etag} \ {EmptyString})

RaceBegin(i, hdr) ==
  /\ variant = "race"
  /\ creq[i].pc = "idle"
  /\ LET section == SectionOf(NoParam)
         c == readCache(section)
         r0 == [IdleReq EXCEPT !.section = section, !.clientETag = hdr, !.cache = c]
     IN IF c.etag # EmptyString /\ hdr = c.etag /\ withinCooldown(c)
        THEN /\ creq' = [creq EXCEPT ![i] = [r0 EXCEPT !.pc = "done", !.resp = NotModified(c.etag)]]
             /\ UNCHANGED cache
        ELSE IF withinCooldown(c) /\ Len(c.articles) > 0
        THEN /\ creq' = [creq EXCEPT ![i] = [r0 EXCEPT !.pc = "done",
                                               !.resp = jsonWithETag(c.articles, "cache", c.etag)]]
             /\ UNCHANGED cache
        ELSE RaceRunOn(i, [r0 EXCEPT !.pc = "loop", !.idx = 1])
  /\ UNCHANGED <<variant, mcache, mreq, web, env, now, ticks, req, okSeen, lastETag, lastTrav, fileVars, blobVars,
                 helperVars, part3Vars, nestedVars>>

\* The provider call invocation i awaits settles.
RaceResume(i) ==
  /\ variant = "race"
  /\ creq[i].pc = "loop"
  /\ \E b \in Behaviours(MAP(creq[i].section)[creq[i].idx]) :
       RaceRunOn(i, IterateOn(creq[i], withTimeout(b)))
  /\ UNCHANGED <<variant, mcache, mreq, web, env, now, ticks, req, okSeen, lastETag, lastTrav, fileVars, blobVars,
                 helperVars, part3Vars, nestedVars>>

RaceDeliver(i) ==
  /\ variant = "race"
  /\ creq[i].pc = "done"
  /\ creq' = [creq EXCEPT ![i] = IdleReq]
  /\ UNCHANGED <<variant, mcache, mreq, web, env, now, ticks, cooldownVars, fileVars, blobVars,
                 helperVars, part3Vars, nestedVars>>

\* ---------------------------------------------------------------------------
\* The file-cache handler of part_003 (lines 9-29 and 104-125): the section
\* is lower-cased and looked up in PROVIDERS as it is; no whitelist, no
\* default chain, no timeout, no sanitizing.  Its PROVIDERS are those of
\* news.mjs.
\* ---------------------------------------------------------------------------
Part3Idle == [pc |-> "idle", section |-> NoParam, idx |-> 0, resp |-> NoResp]

\* Line 105, and the for...of of line 107 reaching for the iterator of
\* PROVIDERS[section]: undefined for a name that is no key, Object or
\* Object.prototype for an inherited one, none of them iterable.  The
\* TypeError is thrown outside the try of lines 108-116.
Part3Begin(raw) ==
  /\ variant = "part3"
  /\ p3req.pc = "idle"
  /\ LET x == toLowerCase(OrDefault(raw))
     IN p3req' = IF hasOwnProperty(x)
                 THEN [Part3Idle EXCEPT !.pc = "loop", !.section = x, !.idx = 1]
                 ELSE [Part3Idle EXCEPT !.pc = "thrown", !.section = x]
  /\ UNCHANGED <<variant, mcache, mreq, web, env, now, ticks, cooldownVars, fileVars, blobVars, helperVars,
                 creq, p3cache, nestedVars>>

\* One iteration of lines 107-117.
Part3LoopStep ==
  /\ variant = "part3"
  /\ p3req.pc = "loop"
  /\ LET s == p3req.section.word
         p == PROVIDERS(s)[p3req.idx]
     IN \E o \in Outcomes(p) :
          IF o.kind = "value" /\ Len(o.raw) > 0
          THEN /\ p3cache' = [p3cache EXCEPT ![s] = [exists |-> TRUE, articles |-> o.raw]]
               /\ p3req' = [p3req EXCEPT !.pc = "done", !.resp = nodeJson(200, "ok", o.raw, p)]
          ELSE /\ p3req' = [p3req EXCEPT
                              !.idx = p3req.idx + 1,
                              !.pc = IF p3req.idx + 1 > Len(PROVIDERS(s)) THEN "fallback" ELSE "loop"]
               /\ UNCHANGED p3cache
  /\ UNCHANGED <<variant, mcache, mreq, web, env, now, ticks, cooldownVars, fileVars, blobVars, helperVars,
                 creq, nestedVars>>

\* Lines 119-124.
Part3Fallback ==
  /\ variant = "part3"
  /\ p3req.pc = "fallback"
  /\ LET c == p3cache[p3req.section.word]
     IN p3req' = [p3req EXCEPT
                    !.pc = "done",
                    !.resp = IF c.exists
                             THEN nodeJson(200, "ok", c.articles, "cache")
                             ELSE nodeJson(502, "error", <<>>, "")]
  /\ UNCHANGED <<variant, mcache, mreq, web, env, now, ticks, cooldownVars, fileVars, blobVars, helperVars,
                 creq, p3cache, nestedVars>>

\* The invocation is over: the response, or the rejection, has left it.
Part3Deliver ==
  /\ variant = "part3"
  /\ p3req.pc \in {"done", "thrown"}
  /\ p3req' = Part3Idle
  /\ UNCHANGED <<variant, mcache, mreq, web, env, now, ticks, cooldownVars, fileVars, blobVars, helperVars,
                 creq, p3cache, nestedVars>>

\* ---------------------------------------------------------------------------
\* The Netlify-Blobs nested-fallback handler (part_001:234-500): NewsAPI,
\* then GNews, Webz.io, Polygon.io, and Finnhub for finance only; the store
\* is read only when they all threw.
\* ---------------------------------------------------------------------------
NestedChain(section) ==
  <<"NewsAPI", "GNews", "Webz.io", "Polygon.io">>
    \o (IF section = "finance" THEN <<"Finnhub">> ELSE <<>>)

\* What an upstream API answers: a failure (a status that is not ok, a body
\* that says so), or a body with its list of records and, for NewsAPI, its
\* totalResults.
UpstreamError == [ok |-> FALSE, totalResults |-> 0, list |-> <<>>]
Body(n, list) == [ok |-> TRUE, totalResults |-> n, list |-> list]
Answers(p) ==
  {UpstreamError, Body(0, <<>>), Body(1, <<A1>>), Body(3, <<A1, A2, A1f>>)}
    \cup (IF p = "NewsAPI" THEN {Body(3, <<>>)} ELSE {})

\* fetchFromNewsAPI throws on !response.ok, data.status !== 'ok' and
\* data.totalResults === 0 and returns data.articles; the other four throw on
\* a missing or empty list and return the mapped list.
fetchFrom(p, a) ==
  IF ~a.ok THEN [kind |-> "throw", raw |-> <<>>]
  ELSE IF p = "NewsAPI"
  THEN IF a.totalResults = 0 THEN [kind |-> "throw", raw |-> <<>>]
       ELSE [kind |-> "value", raw |-> a.list]
  ELSE IF Len(a.list) = 0 THEN [kind |-> "throw", raw |-> <<>>]
       ELSE [kind |-> "value", raw |-> a.list]

NestedInputs == {NoParam, Param("finance", FALSE, FALSE), Param("finance", TRUE, FALSE)}

NestedIdle ==
  [pc |-> "idle", section |-> "", idx |-> 0, articles |-> <<>>, source |-> "unknown",
   threw |-> "", resp |-> NoResp]

\* Lines 427-428.
NestedBegin(raw) ==
  /\ variant = "nested"
  /\ nreq.pc = "idle"
  /\ nreq' = [NestedIdle EXCEPT
                !.pc = "fetch",
                !.section = toLowerCase(IF raw = NoParam THEN Param("world", FALSE, FALSE) ELSE raw).word,
                !.idx = 1]
  /\ UNCHANGED <<variant, mcache, mreq, web, env, now, ticks, cooldownVars, fileVars, blobVars, helperVars,
                 creq, part3Vars, nstore>>

\* One level of the nested try/catch of lines 433-468, and lines 471-481 for
\* a list that is not written: a fetcher that threw hands over to the next
\* one, or to loadFromCache after the last; a fetcher that returned ends the
\* chain, and a returned list with no record is answered as it is.
NestedFetchStep ==
  /\ variant = "nested"
  /\ nreq.pc = "fetch"
  /\ LET chain == NestedChain(nreq.section)
         p == chain[nreq.idx]
     IN \E a \in Answers(p) :
          LET o == fetchFrom(p, a)
          IN nreq' = IF o.kind = "throw"
                     THEN [nreq EXCEPT !.idx = nreq.idx + 1,
                                       !.pc = IF nreq.idx + 1 > Len(chain) THEN "load" ELSE "fetch"]
                     ELSE IF Len(o.raw) > 0
                     THEN [nreq EXCEPT !.articles = o.raw, !.source = p, !.pc = "set"]
                     ELSE [nreq EXCEPT !.articles = o.raw, !.source = p, !.pc = "done",
                                       !.resp = nodeJson(200, "ok", o.raw, p)]
  /\ UNCHANGED <<variant, mcache, mreq, web, env, now, ticks, cooldownVars, fileVars, blobVars, helperVars,
                 creq, part3Vars, nstore>>

\* Lines 472-481: await cache.set(...), which stores the list or rejects;
\* the await stands in no try, so a rejection leaves the handler.
NestedSet ==
  /\ variant = "nested"
  /\ nreq.pc = "set"
  /\ \E stored \in BOOLEAN :
       IF stored
       THEN /\ nstore' = [nstore EXCEPT ![nreq.section] = [exists |-> TRUE, articles |-> nreq.articles]]
            /\ nreq' = [nreq EXCEPT !.pc = "done",
                                    !.resp = nodeJson(200, "ok", nreq.articles, nreq.source)]
       ELSE /\ nreq' = [nreq EXCEPT !.pc = "thrown", !.threw = "set"]
            /\ UNCHANGED nstore
  /\ UNCHANGED <<variant, mcache, mreq, web, env, now, ticks, cooldownVars, fileVars, blobVars, helperVars,
                 creq, part3Vars>>

\* loadFromCache (lines 484-500): await cache.get(...), which answers or
\* rejects; the stored list, or the 500.
NestedLoad ==
  /\ variant = "nested"
  /\ nreq.pc = "load"
  /\ \E answered \in BOOLEAN :
       LET c == nstore[nreq.section]
       IN nreq' = IF ~answered
                  THEN [nreq EXCEPT !.pc = "thrown", !.threw = "get"]
                  ELSE [nreq EXCEPT
                          !.pc = "done",
                          !.resp = IF c.exists
                                   THEN nodeJson(200, "ok", c.articles, "cache")
                                   ELSE nodeJson(500, "error", <<>>, "")]
  /\ UNCHANGED <<variant, mcache, mreq, web, env, now, ticks, cooldownVars, fileVars, blobVars, helperVars,
                 creq, part3Vars, nstore>>

\* The invocation is over: the response, or the rejection, has left it.
NestedDeliver ==
  /\ variant = "nested"
  /\ nreq.pc \in {"done", "thrown"}
  /\ nreq' = NestedIdle
  /\ UNCHANGED <<variant, mcache, mreq, web, env, now, ticks, cooldownVars, fileVars, blobVars, helperVars,
                 creq, part3Vars, nstore>>

\* ---------------------------------------------------------------------------
\* The Finnhub-then-Yahoo market-data function (market-data.js 1-162).
\* A quote is reduced to its ticker; a provider result is the set of tickers
\* it holds a quote for.
\* ---------------------------------------------------------------------------
TICKERS ==
  [indices |-> <<"DIA", "SPY", "QQQ">>,
   ai      |-> <<"NVDA", "MSFT", "GOOG", "AMD", "SMCI">>,
   crypto  |-> <<"COIN", "MSTR", "MARA", "RIOT", "CLSK">>,
   energy  |-> <<"XOM", "CVX", "SLB", "OXY", "COP">>]

Range(q) == {q[i] : i \in 1..Len(q)}
Last(q) == q[Len(q)]

\* all: every ticker of every bucket.
AllTickers ==
  Range(TICKERS.indices) \cup Range(TICKERS.ai) \cup Range(TICKERS.crypto)
    \cup Range(TICKERS.energy)

\* pick: the tickers of a bucket the map has a quote for, in bucket order.
pick(arr, map) == SelectSeq(arr, LAMBDA t : t \in map)

buildResponse(map) ==
  [indices |-> pick(TICKERS.indices, map),
   movers  |-> [ai     |-> pick(TICKERS.ai, map),
                crypto |-> pick(TICKERS.crypto, map),
                energy |-> pick(TICKERS.energy, map)]]

\* readCache returns null: there is no file.
NoData == [isNull |-> TRUE]

\* quoteResponse.result of a Yahoo answer: every symbol, none (the list is
\* missing or empty), or some.
YahooResults == {AllTickers, {}, {"DIA"}, {"NVDA", "XOM"}}

MdNoResp == [statusCode |-> 0, status |-> "", data |-> NoData, source |-> ""]
MdIdle == [pc |-> "idle", resp |-> MdNoResp]

MdOk(data, source) == [statusCode |-> 200, status |-> "ok", data |-> data, source |-> source]

\* writeFile may fail; writeCache ignores it.
MdWriteCache(data) == mcache' \in {data, mcache}

MdBegin ==
  /\ variant = "md"
  /\ mreq.pc = "idle"
  /\ mreq' = [MdIdle EXCEPT !.pc = IF "FINNHUB_API_KEY" \in env THEN "finnhub" ELSE "yahoo"]
  /\ UNCHANGED <<variant, env, now, ticks, newsVars, helperVars, mcache, web>>

\* Promise.all over finnhubQuote: every ticker has a quote, or it rejects.
MdFinnhub ==
  /\ variant = "md"
  /\ mreq.pc = "finnhub"
  /\ \E ok \in BOOLEAN :
       IF ok
       THEN /\ MdWriteCache(buildResponse(AllTickers))
            /\ mreq' = [mreq EXCEPT !.pc = "done",
                                    !.resp = MdOk(buildResponse(AllTickers), "finnhub")]
       ELSE /\ mreq' = [mreq EXCEPT !.pc = "yahoo"]
            /\ UNCHANGED mcache
  /\ UNCHANGED <<variant, env, now, ticks, newsVars, helperVars, web>>

MdYahoo ==
  /\ variant = "md"
  /\ mreq.pc = "yahoo"
  /\ \/ /\ mreq' = [mreq EXCEPT !.pc = "cache"]
        /\ UNCHANGED mcache
     \/ \E map \in YahooResults :
          /\ MdWriteCache(buildResponse(map))
          /\ mreq' = [mreq EXCEPT !.pc = "done", !.resp = MdOk(buildResponse(map), "yahoo")]
  /\ UNCHANGED <<variant, env, now, ticks, newsVars, helperVars, web>>

MdCache ==
  /\ variant = "md"
  /\ mreq.pc = "cache"
  /\ mreq' = [mreq EXCEPT !.pc = "done",
                          !.resp = IF mcache # NoData THEN MdOk(mcache, "cache")
                                   ELSE [statusCode |-> 502, status |-> "error",
                                         data |-> NoData, source |-> ""]]
  /\ UNCHANGED <<variant, env, now, ticks, newsVars, helperVars, mcache, web>>

MdDeliver ==
  /\ variant = "md"
  /\ mreq.pc = "done"
  /\ mreq' = MdIdle
  /\ UNCHANGED <<variant, env, now, ticks, newsVars, helperVars, mcache, web>>

\* ---------------------------------------------------------------------------
\* The Yahoo/ETF/Stooq market-data function (part_012).  A quote is reduced
\* to its ticker and a batch result to the set of tickers it holds; a movers
\* list is reduced to its number of rows; the notes are left out.
\* ---------------------------------------------------------------------------
P12_TTL_MS == 1000 * 60 * 3

INDICES_REAL == <<"^DJI", "^GSPC", "^IXIC">>
INDICES_ETF == <<"DIA", "SPY", "QQQ">>
GROUPS_len == [ai |-> 13, crypto |-> 10, energy |-> 11]

Min(a, b) == IF a < b THEN a ELSE b

\* What a batch call may give: a failure is caught and becomes [], as is an
\* answer without rows.
P12YahooReal == {{}, {"XAUUSD=X", "IEF", "^DJI", "^GSPC", "^IXIC"}, {"^DJI"},
                 {"^DJI", "^GSPC", "^IXIC"}}
P12YahooEtf == {{}, {"GLD", "IEF", "DIA", "SPY", "QQQ"}}
P12StooqReal == {{}, {"^DJI", "^GSPC", "^IXIC", "XAUUSD=X"}}
P12StooqEtf == {{}, {"DIA", "SPY", "QQQ", "GLD", "IEF"}}
\* Which of the three movers batches (ai, crypto, energy) succeed.
P12Movers == {{}, {"ai"}, {"ai", "crypto", "energy"}}

P12Idle == [pc |-> "idle", DEBUG |-> FALSE, resp |-> NoData]

\* Lines 171-226: the payload built from the answers of the upstream calls.
P12Payload(btc, yAll, yEtf, sReal, sEtf, mv) ==
  LET b     == IF btc THEN {"BTCUSD"} ELSE {}
      ind0  == pick(INDICES_REAL, yAll)
      mac0  == pick(<<"BTCUSD", "XAUUSD=X", "IEF">>, yAll \cup b)
      a     == Len(ind0) < 2 \/ "XAUUSD=X" \notin yAll
      indA  == IF a THEN pick(INDICES_ETF, yEtf) ELSE ind0
      macA  == IF a THEN pick(<<"BTCUSD", "GLD", "IEF">>, yEtf \cup b) ELSE mac0
      bb    == Len(indA) = 0
      sIdx  == pick(INDICES_REAL, sReal)
      indB  == IF bb /\ Len(sIdx) > 0 THEN sIdx ELSE indA
      macB  == IF bb /\ Len(macA) = 0 THEN pick(<<"BTCUSD", "XAUUSD=X">>, sReal \cup b)
               ELSE macA
      c     == Len(indB) = 0 \/ Len(macB) = 0
      indC  == IF c /\ Len(indB) = 0 THEN pick(INDICES_ETF, sEtf) ELSE indB
      macC  == IF c /\ Len(macB) = 0 THEN pick(<<"BTCUSD", "GLD", "IEF">>, sEtf \cup b)
               ELSE macB
      rows(g) == IF g \in mv THEN Min(10, GROUPS_len[g]) ELSE 0
  IN [status |-> "ok",
      data |-> [macro |-> macC, indices |-> indC, ai |-> rows("ai"),
                crypto |-> rows("crypto"), energy |-> rows("energy")]]

\* Lines 147-156: the cache is served if fresh and not debugging.
P12Begin ==
  /\ variant = "p12"
  /\ mreq.pc = "idle"
  /\ \E debug \in BOOLEAN :
       mreq' = IF ~debug /\ mcache # NoData /\ now - mcache.ts <= P12_TTL_MS
               THEN [pc |-> "done", DEBUG |-> debug, resp |-> mcache.payload]
               ELSE [pc |-> "fetch", DEBUG |-> debug, resp |-> NoData]
  /\ UNCHANGED <<variant, env, now, ticks, newsVars, helperVars, mcache, web>>

\* Lines 158-230: every upstream call catches its own failure, so the try
\* block runs to its return and the catch of line 231 is never entered.
P12Fetch ==
  /\ variant = "p12"
  /\ mreq.pc = "fetch"
  /\ \E btc \in BOOLEAN, yAll \in P12YahooReal, yEtf \in P12YahooEtf,
        sReal \in P12StooqReal, sEtf \in P12StooqEtf, mv \in P12Movers :
       LET payload == P12Payload(btc, yAll, yEtf, sReal, sEtf, mv) IN
         /\ mreq' = [mreq EXCEPT !.pc = "done", !.resp = payload]
         /\ IF mreq.DEBUG THEN UNCHANGED mcache
            ELSE mcache' \in {[ts |-> now, payload |-> payload], mcache}
  /\ UNCHANGED <<variant, env, now, ticks, newsVars, helperVars, web>>

P12Deliver ==
  /\ variant = "p12"
  /\ mreq.pc = "done"
  /\ mreq' = P12Idle
  /\ UNCHANGED <<variant, env, now, ticks, newsVars, helperVars, mcache, web>>

\* ---------------------------------------------------------------------------
\* The Yahoo + CoinGecko market-data function (part_015), with the same
\* reductions: a quote is its ticker, a movers list its number of rows.
\* ---------------------------------------------------------------------------
P15_TTL_MS == 1000 * 60 * 3

\* The settled Promise.all of line 118: btc and the four Yahoo batches.  A
\* call is rejected (ok FALSE) or gives the set of tickers it holds; for the
\* three movers batches together, rows names those that hold quotes.
P15Batch(results) ==
  {[ok |-> FALSE, rows |-> {}]} \cup {[ok |-> TRUE, rows |-> r] : r \in results}

P15Answers ==
  [btc : BOOLEAN,
   y   : P15Batch({{}, {"^DJI"}, {"XAUUSD=X", "IEF", "^DJI", "^GSPC", "^IXIC"}}),
   mv  : P15Batch({{}, {"ai", "crypto", "energy"}})]

P15Rejected(a) == ~a.btc \/ ~a.y.ok \/ ~a.mv.ok

\* Lines 120-146.
P15Payload(a) ==
  LET rows(g) == IF g \in a.mv.rows THEN Min(10, GROUPS_len[g]) ELSE 0
      movers  == [ai |-> rows("ai"), crypto |-> rows("crypto"), energy |-> rows("energy")]
  IN [status |-> "ok",
      data |-> [macro   |-> pick(<<"BTCUSD", "XAUUSD=X", "IEF">>, a.y.rows \cup {"BTCUSD"}),
                indices |-> pick(INDICES_REAL, a.y.rows),
                ai |-> movers.ai, crypto |-> movers.crypto, energy |-> movers.energy,
                movers |-> movers]]

\* Line 158: the payload of the soft fallback.
P15Empty ==
  [status |-> "ok",
   data |-> [macro |-> <<>>, indices |-> <<>>, ai |-> 0, crypto |-> 0, energy |-> 0,
             movers |-> [ai |-> 0, crypto |-> 0, energy |-> 0]]]

P15Idle == [pc |-> "idle", caught |-> FALSE, resp |-> [statusCode |-> 0, body |-> NoData]]

P15Return(body) == [statusCode |-> 200, body |-> body]

\* The catch block without the test of cached?.payload.
P15Caught_noSoft(cached) ==
  P15Return(IF cached # NoData THEN cached.payload ELSE NoData)

\* Lines 150-160: the catch block.
P15Caught(cached) ==
  IF cached # NoData THEN P15Return(cached.payload) ELSE P15Return(P15Empty)

\* Lines 101-106.
P15Begin ==
  /\ variant = "p15"
  /\ mreq.pc = "idle"
  /\ mreq' = IF mcache # NoData /\ now - mcache.ts <= P15_TTL_MS
             THEN [P15Idle EXCEPT !.pc = "done", !.resp = P15Return(mcache.payload)]
             ELSE [P15Idle EXCEPT !.pc = "fetch"]
  /\ UNCHANGED <<variant, env, now, ticks, newsVars, helperVars, mcache, web>>

\* Lines 108-160.
P15Fetch ==
  /\ variant = "p15"
  /\ mreq.pc = "fetch"
  /\ \E a \in P15Answers :
       IF P15Rejected(a)
       THEN /\ mreq' = [mreq EXCEPT !.pc = "done", !.caught = TRUE, !.resp = P15Caught(mcache)]
            /\ UNCHANGED mcache
       ELSE /\ mreq' = [mreq EXCEPT !.pc = "done", !.resp = P15Return(P15Payload(a))]
            /\ mcache' \in {[ts |-> now, payload |-> P15Payload(a)], mcache}
  /\ UNCHANGED <<variant, env, now, ticks, newsVars, helperVars, web>>

P15Deliver ==
  /\ variant = "p15"
  /\ mreq.pc = "done"
  /\ mreq' = P15Idle
  /\ UNCHANGED <<variant, env, now, ticks, newsVars, helperVars, mcache, web>>

\* ---------------------------------------------------------------------------
\* The mini-market function with ?force=1 (part_005; mini-market.js 1-97 and
\* part_004 have the same handler head).  getBTC and getXAU run concurrently
\* under Promise.allSettled; getXAU walks its three providers one by one.
\* Prices are positive numbers.
\* ---------------------------------------------------------------------------
P5_TTL_MS == 60 * 1000

\* null in data.btcUSD and data.xauUSD.
NullPrice == -1
BtcPrice == 50000
XauPrice == 2000

\* The order of getXAU (lines 87-97).
GoldChain == <<"exchangerate.latest", "exchangerate.convert", "goldprice">>

\* The provider getXAU awaits after p was rejected ("" after the last one).
P5NextGold_skipConvert(p) ==
  CASE p = "exchangerate.latest" -> "goldprice"
    [] OTHER -> ""

P5NextGold(p) ==
  CASE p = "exchangerate.latest"  -> "exchangerate.convert"
    [] p = "exchangerate.convert" -> "goldprice"
    [] OTHER -> ""

Pending == [st |-> "pending", price |-> NullPrice, source |-> ""]
Rejected == [st |-> "rejected", price |-> NullPrice, source |-> ""]
Fulfilled(price, source) == [st |-> "fulfilled", price |-> price, source |-> source]

P5NoResp == [statusCode |-> 0, body |-> NoData]
P5Idle == [pc |-> "idle", force |-> FALSE, at |-> 0, calls |-> <<>>, xlog |-> <<>>,
           btc |-> Pending, xau |-> Pending, caught |-> FALSE, resp |-> P5NoResp]

\* Line 103 without the test of force.
P5ServeCached_ignoreForce(force, cached, at) ==
  cached # NoData /\ at - cached.ts <= P5_TTL_MS

\* Line 103: the cached payload is served.
P5ServeCached(force, cached, at) ==
  ~force /\ cached # NoData /\ at - cached.ts <= P5_TTL_MS

\* Lines 100-107: up to the await; both lookups have issued their first call.
P5Begin(force) ==
  /\ variant = "p5"
  /\ mreq.pc = "idle"
  /\ mreq' = IF P5ServeCached(force, mcache, now)
             THEN [P5Idle EXCEPT !.pc = "done", !.force = force, !.at = now,
                                 !.resp = [statusCode |-> 200, body |-> mcache.payload]]
             ELSE [P5Idle EXCEPT !.pc = "fetch", !.force = force, !.at = now,
                                 !.calls = <<"binance", GoldChain[1]>>]
  /\ UNCHANGED <<variant, env, now, ticks, newsVars, helperVars, mcache, web>>

\* getBTC settles (lines 29-44).
P5Btc ==
  /\ variant = "p5"
  /\ mreq.pc = "fetch"
  /\ mreq.btc.st = "pending"
  /\ \E ok \in BOOLEAN :
       mreq' = [mreq EXCEPT !.btc = IF ok THEN Fulfilled(BtcPrice, "binance") ELSE Rejected]
  /\ UNCHANGED <<variant, env, now, ticks, newsVars, helperVars, mcache, web>>

\* The gold provider awaited by getXAU settles (lines 60-97).
P5Xau ==
  /\ variant = "p5"
  /\ mreq.pc = "fetch"
  /\ mreq.xau.st = "pending"
  /\ LET p == Last(mreq.calls) IN
     \E ok \in BOOLEAN :
       mreq' = [mreq EXCEPT
                  !.xlog = Append(@, [p |-> p, ok |-> ok]),
                  !.xau = IF ok THEN Fulfilled(XauPrice, p)
                          ELSE IF P5NextGold(p) = "" THEN Rejected ELSE @,
                  !.calls = IF ~ok /\ P5NextGold(p) # "" THEN Append(@, P5NextGold(p)) ELSE @]
  /\ UNCHANGED <<variant, env, now, ticks, newsVars, helperVars, mcache, web>>

\* Lines 109-129: the payload of a live answer.
P5Payload(btc, xau) ==
  [status |-> "ok",
   data   |-> [btcUSD |-> btc.price, xauUSD |-> xau.price],
   meta   |-> [BTCUSD |-> btc.source, XAUUSD |-> xau.source],
   errors |-> {k \in {"BTCUSD", "XAUUSD"} :
                 (IF k = "BTCUSD" THEN btc ELSE xau).st = "rejected"}]

\* Lines 132-138: the catch block.
P5Caught(cached) ==
  IF cached # NoData THEN [statusCode |-> 200, body |-> cached.payload]
  ELSE [statusCode |-> 500, body |-> [status |-> "error"]]

\* Lines 107-138, once both lookups have settled.
P5Finish ==
  /\ variant = "p5"
  /\ mreq.pc = "fetch"
  /\ mreq.btc.st # "pending" /\ mreq.xau.st # "pending"
  /\ IF mreq.btc.price = NullPrice /\ mreq.xau.price = NullPrice
     THEN /\ mreq' = [mreq EXCEPT !.pc = "done", !.caught = TRUE, !.resp = P5Caught(mcache)]
          /\ UNCHANGED mcache
     ELSE /\ mreq' = [mreq EXCEPT !.pc = "done",
                        !.resp = [statusCode |-> 200, body |-> P5Payload(mreq.btc, mreq.xau)]]
          /\ mcache' \in {[ts |-> now, payload |-> P5Payload(mreq.btc, mreq.xau)], mcache}
  /\ UNCHANGED <<variant, env, now, ticks, newsVars, helperVars, web>>

P5Deliver ==
  /\ variant = "p5"
  /\ mreq.pc = "done"
  /\ mreq' = P5Idle
  /\ UNCHANGED <<variant, env, now, ticks, newsVars, helperVars, mcache, web>>

\* ---------------------------------------------------------------------------
\* The mini-market function of part_007: two providers per quote, a lookup
\* that ran out of providers returns null.
\* ---------------------------------------------------------------------------
P7_TTL_MS == 1000 * 60 * 3

\* What the two providers of a lookup answer: a price, or NullPrice for a
\* failure of any kind (HTTP error, timeout, no number in the body).
P7Answers == {<<p1, p2>> : p1 \in {NullPrice, 1}, p2 \in {NullPrice, 2}}

\* getBTC_USD and getXAU_USD (lines 29-73): the first number, else null.
getQuote(a) == IF a[1] # NullPrice THEN a[1] ELSE a[2]

P7Idle == [pc |-> "idle", resp |-> P5NoResp]

\* Lines 75-80.
P7Begin ==
  /\ variant = "p7"
  /\ mreq.pc = "idle"
  /\ mreq' = IF mcache # NoData /\ now - mcache.ts <= P7_TTL_MS
             THEN [pc |-> "done", resp |-> [statusCode |-> 200, body |-> mcache.payload]]
             ELSE [pc |-> "fetch", resp |-> P5NoResp]
  /\ UNCHANGED <<variant, env, now, ticks, newsVars, helperVars, mcache, web>>

\* Lines 82-97: neither lookup throws, so the catch block is not entered.
P7Fetch ==
  /\ variant = "p7"
  /\ mreq.pc = "fetch"
  /\ \E b \in P7Answers, x \in P7Answers :
       LET payload == [status |-> "ok",
                       data |-> [btcUSD |-> getQuote(b), xauUSD |-> getQuote(x)]] IN
         /\ mreq' = [pc |-> "done", resp |-> [statusCode |-> 200, body |-> payload]]
         /\ mcache' \in {[ts |-> now, payload |-> payload], mcache}
  /\ UNCHANGED <<variant, env, now, ticks, newsVars, helperVars, web>>

P7Deliver ==
  /\ variant = "p7"
  /\ mreq.pc = "done"
  /\ mreq' = P7Idle
  /\ UNCHANGED <<variant, env, now, ticks, newsVars, helperVars, mcache, web>>

\* ---------------------------------------------------------------------------
\* getTopMover (part_009 158-174, part_011 31-47), on the quote maps of
\* topMovers and on maps with quotes that did not move (dp 0).
\* ---------------------------------------------------------------------------
\* The loop: topMover is <<>> for null and <<row>> otherwise.
RECURSIVE TopMoverLoop(_, _, _, _)
TopMoverLoop(universe, map, topMover, maxAbsChange) ==
  IF universe = <<>> THEN topMover
  ELSE LET ticker == Head(universe)
           quote  == map[ticker]
       IN IF isFinite(quote) /\ abs(quote.dp) > maxAbsChange
          THEN TopMoverLoop(Tail(universe), map, <<[ticker |-> ticker, dp |-> quote.dp]>>,
                            abs(quote.dp))
          ELSE TopMoverLoop(Tail(universe), map, topMover, maxAbsChange)

\* return topMover ? [topMover] : []
getTopMover(universe, map) == TopMoverLoop(universe, map, <<>>, 0)

FlatQuoteMaps ==
  {[t \in Tickers |-> CASE t = "A" -> a [] t = "B" -> b [] t = "C" -> c [] OTHER -> d] :
     a \in {Num(0), Num(1), NoQuote},
     b \in {Num(0), Num(-5), NullDp},
     c \in {Num(0), Num(2)},
     d \in {Num(0), NaN, NoQuote}}

GetTopMover ==
  /\ variant = "mover1"
  /\ mov.pc = "start"
  /\ mov' = [mov EXCEPT !.pc = "done", !.out = getTopMover(mov.universe, mov.map)]
  /\ UNCHANGED <<variant, env, now, ticks, newsVars, san, nrm, marketVars, web>>

\* ---------------------------------------------------------------------------
\* getData of the Yahoo-then-Stooq market-data function (add-link.js
\* 420-485), on the tickers of topMovers: A, B stand for AI_UNIVERSE, C for
\* CRYPTO_UNIVERSE, D for ENERGY_UNIVERSE.  A Yahoo quote has dp 1 or null, a
\* Stooq quote dp -2 or null, so that a row shows where it came from.  BTC,
\* gold and ^TNX, which are rows of their own, are left out.
\* ---------------------------------------------------------------------------
AI_UNIVERSE == <<"A", "B">>
CRYPTO_UNIVERSE == <<"C">>
ENERGY_UNIVERSE == <<"D">>
YAHOO_INDICES == <<"^DJI", "^GSPC", "^IXIC">>
ETF_FALLBACK == [s \in Range(YAHOO_INDICES) |->
                   CASE s = "^DJI" -> "DIA" [] s = "^GSPC" -> "SPY" [] OTHER -> "QQQ"]

NoQuotes == [t \in Tickers |-> NoQuote]

\* yahooQuotes: a quote, with or without dp, for some of the symbols.
YahooMaps == [Tickers -> {NoQuote, Num(1), NullDp}]
YahooIndexSets == {{}, {"^DJI"}, Range(YAHOO_INDICES)}

\* stooqQuotes: rows for symbols among those asked for.
StooqMaps(asked) ==
  {m \in [Tickers -> {NoQuote, Num(-2), NullDp}] : \A t \in Tickers : m[t].has => t \in asked}

\* Lines 435-438 with every equity taken as missing.
missing_all(yMap) == Tickers

\* Lines 435-438: the equities Yahoo has no quote for.
missing(yMap) == {t \in Tickers : ~yMap[t].has}

\* Lines 440-446.
needEtfs(yIdx) == {ETF_FALLBACK[s] : s \in Range(YAHOO_INDICES) \ yIdx}

\* new Map([...yMap, ...sMap]): of two entries with one key the later stays.
MergeMaps(yMap, sMap) == [t \in Tickers |-> IF sMap[t].has THEN sMap[t] ELSE yMap[t]]

\* Lines 455-463: the index rows, by ticker.
RECURSIVE IndexRows(_, _, _)
IndexRows(idxs, yIdx, sEtf) ==
  IF idxs = <<>> THEN <<>>
  ELSE (IF Head(idxs) \in yIdx THEN <<[name |-> Head(idxs), ticker |-> Head(idxs)]>>
        ELSE IF ETF_FALLBACK[Head(idxs)] \in sEtf
             THEN <<[name |-> Head(idxs), ticker |-> ETF_FALLBACK[Head(idxs)]]>>
             ELSE <<>>)
       \o IndexRows(Tail(idxs), yIdx, sEtf)

NoMovers == [ai |-> <<>>, crypto |-> <<>>, energy |-> <<>>]
MergeIdle == [pc |-> "idle", yMap |-> NoQuotes, yIdx |-> {}, stooq |-> FALSE,
              sMap |-> NoQuotes, sEtf |-> {}, rejected |-> FALSE,
              indices |-> <<>>, movers |-> NoMovers]

\* Lines 428-452: Yahoo is asked; a failure leaves yq null.
MergeYahoo ==
  /\ variant = "merge"
  /\ mreq.pc = "idle"
  /\ \E yMap \in YahooMaps \cup {NoQuotes}, yIdx \in YahooIndexSets :
       mreq' = [MergeIdle EXCEPT
                  !.yMap = yMap, !.yIdx = yIdx,
                  !.stooq = missing(yMap) # {} \/ needEtfs(yIdx) # {},
                  !.pc = IF missing(yMap) # {} \/ needEtfs(yIdx) # {} THEN "stooq"
                         ELSE "build"]
  /\ UNCHANGED <<variant, env, now, ticks, newsVars, helperVars, mcache, web>>

\* Lines 449-452: Stooq is asked for the missing symbols; its failure is not
\* caught in getData.
MergeStooq ==
  /\ variant = "merge"
  /\ mreq.pc = "stooq"
  /\ \/ mreq' = [mreq EXCEPT !.pc = "done", !.rejected = TRUE]
     \/ \E sMap \in StooqMaps(missing(mreq.yMap)), sEtf \in {{}, needEtfs(mreq.yIdx)} :
          mreq' = [mreq EXCEPT !.pc = "build", !.sMap = sMap, !.sEtf = sEtf]
  /\ UNCHANGED <<variant, env, now, ticks, newsVars, helperVars, mcache, web>>

\* Lines 454-484.
MergeBuild ==
  /\ variant = "merge"
  /\ mreq.pc = "build"
  /\ LET quoteMap == MergeMaps(mreq.yMap, mreq.sMap) IN
       mreq' = [mreq EXCEPT
                  !.pc = "done",
                  !.indices = IndexRows(YAHOO_INDICES, mreq.yIdx, mreq.sEtf),
                  !.movers = [ai     |-> topMovers(AI_UNIVERSE, quoteMap, 8),
                              crypto |-> topMovers(CRYPTO_UNIVERSE, quoteMap, 8),
                              energy |-> topMovers(ENERGY_UNIVERSE, quoteMap, 8)]]
  /\ UNCHANGED <<variant, env, now, ticks, newsVars, helperVars, mcache, web>>

MergeDeliver ==
  /\ variant = "merge"
  /\ mreq.pc = "done"
  /\ mreq' = MergeIdle
  /\ UNCHANGED <<variant, env, now, ticks, newsVars, helperVars, mcache, web>>

\* ---------------------------------------------------------------------------
\* The add-link function (add-link.js 1-88, part_008).  A string is "" when
\* it is empty or missing.  The body of the catch block of line 87 is not
\* part of the source, so a request that ends there has pc "caught" and no
\* status code.
\* ---------------------------------------------------------------------------
SECRET_KEY == "right"

Fields == [title : {"", "T"}, url : {"", "U"}, secret : {"", "wrong", "right"}]
NoFields == [title |-> "", url |-> "", secret |-> ""]

\* The events: a body and a content type come with a POST only, and only a
\* JSON body can fail to parse.
Events ==
  {e \in [httpMethod : {"OPTIONS", "GET", "POST", "PUT"},
          ct : {"application/json", "application/x-www-form-urlencoded", "text/plain"},
          parses : BOOLEAN, query : Fields, body : Fields, xsecret : {"", "right"}] :
     /\ e.httpMethod # "POST" => e.ct = "text/plain" /\ e.body = NoFields
     /\ e.ct # "application/json" => e.parses
     /\ e.httpMethod = "POST" => e.query.title = "" /\ e.query.url = ""
     /\ e.body.url = "" => e.body.title = ""}

\* a || b on strings.
Or(a, b) == IF a # "" THEN a ELSE b

\* Lines 29-50: title, url and providedSecret of a GET or POST.
Inputs(e) ==
  IF e.httpMethod = "GET"
  THEN [title |-> e.query.title, url |-> e.query.url,
        secret |-> Or(e.query.secret, e.xsecret)]
  ELSE LET body == IF e.ct = "text/plain" THEN NoFields ELSE e.body IN
         [title |-> body.title, url |-> body.url,
          secret |-> Or(body.secret, Or(e.xsecret, e.query.secret))]

\* Line 56 without the comparison.
Unauthorized_presentOnly(providedSecret) == providedSecret = ""

\* Line 56: !providedSecret || providedSecret !== SECRET_KEY
Unauthorized(providedSecret) == providedSecret = "" \/ providedSecret # SECRET_KEY

LinkIdle == [pc |-> "idle", event |-> [httpMethod |-> ""], calls |-> 0, statusCode |-> 0]

\* Lines 12-64: up to a return, a throw or the call of the webhook.
LinkBegin(e) ==
  /\ variant = "link"
  /\ mreq.pc = "idle"
  /\ LET return(code) == [pc |-> "done", event |-> e, calls |-> 0, statusCode |-> code] IN
     mreq' =
       IF e.httpMethod = "OPTIONS" THEN return(204)
       ELSE IF "ZAPIER_WEBHOOK_URL" \notin env THEN return(500)
       ELSE IF "SECRET_KEY" \notin env THEN return(500)
       ELSE IF e.httpMethod \notin {"GET", "POST"} THEN return(405)
       ELSE IF e.httpMethod = "POST" /\ ~e.parses
            THEN [pc |-> "caught", event |-> e, calls |-> 0, statusCode |-> 0]
       ELSE IF Unauthorized(Inputs(e).secret) THEN return(401)
       ELSE IF Inputs(e).title = "" \/ Inputs(e).url = "" THEN return(400)
       ELSE [pc |-> "zapier", event |-> e, calls |-> 1, statusCode |-> 0]
  /\ UNCHANGED <<variant, env, now, ticks, newsVars, helperVars, mcache, web>>

\* Lines 64-86: the webhook answers, or the fetch throws.
LinkZapier ==
  /\ variant = "link"
  /\ mreq.pc = "zapier"
  /\ \E answer \in {"ok", "not ok", "throws"} :
       mreq' = CASE answer = "ok"     -> [mreq EXCEPT !.pc = "done", !.statusCode = 200]
                 [] answer = "not ok" -> [mreq EXCEPT !.pc = "done", !.statusCode = 502]
                 [] OTHER             -> [mreq EXCEPT !.pc = "caught"]
  /\ UNCHANGED <<variant, env, now, ticks, newsVars, helperVars, mcache, web>>

LinkDeliver ==
  /\ variant = "link"
  /\ mreq.pc \in {"done", "caught"}
  /\ mreq' = LinkIdle
  /\ UNCHANGED <<variant, env, now, ticks, newsVars, helperVars, mcache, web>>

\* ---------------------------------------------------------------------------
\* The dashboard client with ETag support (part_001 1111-1160) and the news
\* function it polls, for one section.  An article list is named by a
\* version number, which is also its ETag (0: no list, no ETag); srv is the
\* version in the server's cache file, ls the ETag in localStorage, dom the
\* version shown in the section's list (0: empty, -1: the error line).
\* ---------------------------------------------------------------------------
Versions == {1, 2}

WebIdle == [pc |-> "closed", dom |-> 0, ls |-> 0, srv |-> 0, sent |-> 0, status |-> 0]

\* What the news function may answer to If-None-Match: sent (part_001
\* 658-706): 304 if the header equals the cached ETag, 200 with a fresh list
\* that replaces the cache, 200 with the cached list, 502 without a cache.
ServerAnswers(srv, sent) ==
  {[status |-> 304, version |-> srv, srv |-> srv] : x \in {y \in {srv} : sent # 0 /\ sent = y}}
    \cup {[status |-> 200, version |-> v, srv |-> v] : v \in Versions}
    \cup {[status |-> 200, version |-> srv, srv |-> srv] : x \in {y \in {srv} : y # 0 /\ sent # y}}
    \cup {[status |-> 502, version |-> 0, srv |-> srv] : x \in {y \in {srv} : y = 0}}

\* A page load: the document starts with empty lists, localStorage is kept,
\* and updateAll runs; fetchNews sends the stored ETag (lines 1113-1115).
WebLoad ==
  /\ variant = "client"
  /\ web.pc \in {"closed", "shown"}
  /\ web' = [web EXCEPT !.pc = "fetching", !.dom = 0, !.sent = web.ls, !.status = 0]
  /\ UNCHANGED <<variant, env, now, ticks, newsVars, helperVars, marketVars>>

\* A refresh of the open page: updateAll runs again.
WebRefresh ==
  /\ variant = "client"
  /\ web.pc = "shown"
  /\ web' = [web EXCEPT !.pc = "fetching", !.sent = web.ls, !.status = 0]
  /\ UNCHANGED <<variant, env, now, ticks, newsVars, helperVars, marketVars>>

\* fetchNews from line 1117 on, and the forEach of updateAll (1140-1157).
WebAnswer ==
  /\ variant = "client"
  /\ web.pc = "fetching"
  /\ \E a \in ServerAnswers(web.srv, web.sent) :
       web' = CASE a.status = 304 ->
                     [web EXCEPT !.pc = "shown", !.status = 304]
                [] a.status = 200 ->
                     [web EXCEPT !.pc = "shown", !.status = 200, !.srv = a.srv,
                                 !.ls = a.version, !.dom = a.version]
                [] OTHER ->
                     [web EXCEPT !.pc = "shown", !.status = a.status,
                                 !.dom = IF web.dom = 0 THEN -1 ELSE web.dom]
  /\ UNCHANGED <<variant, env, now, ticks, newsVars, helperVars, marketVars>>

\* Time passes between invocations, while a provider is awaited, and between
\* two applications of sanitizeArticles.
Tick ==
  /\ ticks < MaxTicks
  /\ req.pc \in {"idle", "loop"}
  /\ freq.pc \in {"idle", "loop"}
  /\ breq.pc \in {"idle", "fetch"}
  /\ san.pc \in {"off", "once"}
  /\ nrm.pc = "off"
  /\ mov.pc = "off"
  /\ variant \in {"cooldown", "file", "blob", "sanitize", "norm", "movers", "p12",
                   "p15", "p5", "p7"}
  /\ variant \in {"p12", "p15", "p5", "p7"} => mreq.pc \in {"idle", "fetch"}
  /\ now' = now + (IF variant = "p5" THEN P5_TTL_MS ELSE TickMs)
  /\ ticks' = ticks + 1
  /\ UNCHANGED <<variant, mcache, mreq, web, mov, creq, p3cache, p3req, nstore, nreq, bstore, breq, san, nrm, env, cache, req, okSeen, lastETag, lastTrav, fcache, freq>>

Init ==
  /\ variant \in {"cooldown", "file", "blob", "sanitize", "norm", "movers", "race",
                   "part3", "nested", "md", "p12", "p15",
                   "p5", "p7", "mover1", "merge", "link", "client"}
  /\ env \in IF variant \in {"cooldown", "file", "blob"} THEN EnvChoices
             ELSE IF variant = "race" THEN {{}, {"NEWSAPI_KEY"}}
             ELSE IF variant = "md" THEN {{}, {"FINNHUB_API_KEY"}}
             ELSE IF variant = "link" THEN SUBSET {"ZAPIER_WEBHOOK_URL", "SECRET_KEY"}
             ELSE {{}}
  /\ mcache = NoData
  /\ mreq = CASE variant = "p12" -> P12Idle
               [] variant = "p15" -> P15Idle
               [] variant = "p5" -> P5Idle
               [] variant = "p7" -> P7Idle
               [] variant = "merge" -> MergeIdle
               [] variant = "link" -> LinkIdle
               [] OTHER -> MdIdle
  /\ web = WebIdle
  /\ mov \in IF variant = "movers"
             THEN {[MovIdle EXCEPT !.pc = "start", !.universe = u, !.map = m, !.count = n] :
                     u \in Universes, m \in QuoteMaps, n \in Counts}
             ELSE IF variant = "mover1"
             THEN {[MovIdle EXCEPT !.pc = "start", !.universe = u, !.map = m] :
                     u \in Universes, m \in QuoteMaps \cup FlatQuoteMaps}
             ELSE {MovIdle}
  /\ creq = [i \in Invocations |-> IdleReq]
  /\ p3cache = [s \in Sections |-> FileNoFile]
  /\ p3req = Part3Idle
  /\ nstore = [s \in Sections |-> FileNoFile]
  /\ nreq = NestedIdle
  /\ bstore = [s \in Sections |-> NoBlob]
  /\ breq = BlobIdle
  /\ san \in IF variant = "sanitize"
             THEN {[SanIdle EXCEPT !.pc = "start", !.arr = l] : l \in ListsUpTo(MaxLen)}
             ELSE {SanIdle}
  /\ nrm \in IF variant = "norm"
             THEN {[NrmIdle EXCEPT !.pc = "start", !.title = t, !.url = u, !.ts = ts] :
                     t \in Strs, u \in Strs, ts \in Stamps}
             ELSE {NrmIdle}
  /\ now = StartNow
  /\ ticks = 0
  /\ cache \in IF variant = "race"
               THEN {[s \in Sections |-> NoFile],
                     [s \in Sections |-> IF s = DEFAULT_SECTION THEN OldEntry ELSE NoFile]}
               ELSE {[s \in Sections |-> NoFile]}
  /\ req = IdleReq
  /\ okSeen = {}
  /\ lastETag = [s \in Sections |-> Undefined]
  /\ lastTrav = [s \in Sections |-> -1]
  /\ fcache = [s \in Sections |-> FileNoFile]
  /\ freq = FileIdle

ClientETags(s) == {Undefined, BogusETag, lastETag[s]}

Next ==
  \/ \E raw \in SectionInputs : \E hdr \in ClientETags(SectionOf(raw)) : Begin(raw, hdr)
  \/ LoopStep
  \/ After
  \/ Deliver
  \/ \E raw \in SectionInputs : FileBegin(raw)
  \/ FileLoopStep
  \/ FileFallback
  \/ FileDeliver
  \/ \E raw \in BlobSectionInputs : BlobBegin(raw)
  \/ BlobFetchStep
  \/ BlobCache
  \/ BlobDeliver
  \/ SanitizeOnce
  \/ SanitizeTwice
  \/ Norm
  \/ TopMovers
  \/ \E i \in Invocations : \E hdr \in RaceClientETags(DEFAULT_SECTION) : RaceBegin(i, hdr)
  \/ \E i \in Invocations : RaceResume(i)
  \/ \E i \in Invocations : RaceDeliver(i)
  \/ \E raw \in BlobSectionInputs : Part3Begin(raw)
  \/ Part3LoopStep
  \/ Part3Fallback
  \/ Part3Deliver
  \/ \E raw \in NestedInputs : NestedBegin(raw)
  \/ NestedFetchStep
  \/ NestedSet
  \/ NestedLoad
  \/ NestedDeliver
  \/ MdBegin
  \/ MdFinnhub
  \/ MdYahoo
  \/ MdCache
  \/ MdDeliver
  \/ P12Begin
  \/ P12Fetch
  \/ P12Deliver
  \/ P15Begin
  \/ P15Fetch
  \/ P15Deliver
  \/ \E force \in BOOLEAN : P5Begin(force)
  \/ P5Btc
  \/ P5Xau
  \/ P5Finish
  \/ P5Deliver
  \/ P7Begin
  \/ P7Fetch
  \/ P7Deliver
  \/ GetTopMover
  \/ MergeYahoo
  \/ MergeStooq
  \/ MergeBuild
  \/ MergeDeliver
  \/ \E e \in Events : LinkBegin(e)
  \/ LinkZapier
  \/ LinkDeliver
  \/ WebLoad
  \/ WebRefresh
  \/ WebAnswer
  \/ Tick

Spec == Init /\ [][Next]_vars

\* The cooldown/ETag handler on its own, with the scheduling Node gives it:
\* the timer of withTimeout fires after TIMEOUT_MS, so the await of line 683
\* returns or throws and the iteration is carried out (LoopStep); the code
\* after the loop is synchronous and runs to the return (After).
\* Every API key is present, so that every provider of a chain is called.
CooldownInit == Init /\ variant = "cooldown" /\ env = Keys

CooldownNext ==
  \/ \E raw \in SectionInputs : \E hdr \in ClientETags(SectionOf(raw)) : Begin(raw, hdr)
  \/ LoopStep
  \/ After
  \/ Deliver
  \/ Tick

LiveSpec == CooldownInit /\ [][CooldownNext]_vars /\ WF_vars(LoopStep) /\ WF_vars(After)

\* ------------------------------------------------------------------ claims

\* The request went through its whole chain and no provider delivered.
AllFailed(r) == ~r.got.some /\ Len(r.log) = Len(MAP(r.section))

\* Article a is one of the records of the provider result raw (its time
\* possibly filled in by toISO).
ProducedBy(a, raw) ==
  \E j \in 1..Len(raw) :
    /\ ~raw[j].nul
    /\ raw[j].title = a.title /\ raw[j].url = a.url /\ raw[j].frag = a.frag
    /\ raw[j].publishedAt \in {a.publishedAt, -1}

\* C1: in the cooldown/ETag handler the log of a request follows the
\* section's chain position by position (strict configured order, no provider
\* twice), nothing is logged after the first provider that delivered a valid
\* article, and the response of such a request is the 200 "ok" naming that
\* provider and carrying only records of that provider's result.
C1_ChainInOrderStopsAtFirstSuccess ==
  LET chain == MAP(req.section)
      n == Len(req.log)
  IN /\ n <= Len(chain)
     /\ \A i \in 1..n : req.log[i].p = chain[i]
     /\ \A i \in 1..n : (req.log[i].kind = "ok") => (i = n /\ req.pc \in {"after", "done"})
     /\ (req.pc = "done" /\ n > 0 /\ Last(req.log).kind = "ok") =>
          /\ req.resp.statusCode = 200 /\ req.resp.status = "ok"
          /\ req.resp.source = chain[n]
          /\ Len(req.resp.articles) > 0
          /\ \A k \in 1..Len(req.resp.articles) : ProducedBy(req.resp.articles[k], req.out.raw)

\* C1 witness: two providers were tried and failed and the third delivered.
C1_Witness ==
  /\ req.pc = "done" /\ Len(req.log) = 3
  /\ req.log[1].kind = "fail" /\ req.log[2].kind = "fail" /\ req.log[3].kind = "ok"
  /\ req.resp.source = "gnews"

\* The section's cache file holds at least one (valid) article.
Cached(s) == cache[s].exists /\ Len(sanitizeArticles(cache[s].articles, now)) > 0

\* C2 as stated: whenever all providers failed or were skipped and the cache
\* holds an article, the response is the 200 carrying the cached articles
\* with source "cache", whatever the request headers.
C2_Original ==
  (req.pc = "done" /\ AllFailed(req) /\ Cached(req.section)) =>
     /\ req.resp.statusCode = 200 /\ req.resp.status = "ok"
     /\ req.resp.source = "cache"
     /\ req.resp.articles = cache[req.section].articles

\* C2 amended: whenever all providers failed or were skipped and the cache
\* entry read at the start of the request holds an article, the response is
\* never an error: it is the 304 carrying the cached ETag when the request's
\* If-None-Match equals that ETag, and otherwise the 200 "ok" carrying the
\* cached articles with source "cache".
C2_CacheFallbackOr304 ==
  (req.pc = "done" /\ AllFailed(req) /\ Len(req.cache.articles) > 0) =>
     IF req.clientETag = req.cache.etag
     THEN /\ req.resp.statusCode = 304 /\ req.resp.ETag = req.cache.etag
          /\ req.resp.status # "error"
     ELSE /\ req.resp.statusCode = 200 /\ req.resp.status = "ok"
          /\ req.resp.source = "cache"
          /\ req.resp.articles = req.cache.articles
          /\ req.resp.ETag = req.cache.etag

\* C2 witness: the chain was exhausted and the cached list was served.
C2_Witness ==
  /\ req.pc = "done" /\ AllFailed(req) /\ Cached(req.section)
  /\ req.resp.statusCode = 200 /\ req.resp.source = "cache"
  /\ req.clientETag = BogusETag

FileAllFailed(r) ==
  Len(r.log) = Len(PROVIDERS(r.section)) /\ \A i \in 1..Len(r.log) : r.log[i].kind # "ok"

FileCached(s) == fcache[s].exists /\ Len(sanitizeArticles(fcache[s].articles, now)) > 0

\* C3: in both handlers, when all providers failed or were skipped and the
\* section has no cached article, the response is the 502 with status
\* "error" (and so no "ok" payload with an empty list).
C3_ExhaustionIs502 ==
  /\ (req.pc = "done" /\ AllFailed(req) /\ ~Cached(req.section)) =>
        /\ req.resp.statusCode = 502 /\ req.resp.status = "error"
        /\ req.resp.articles = <<>>
  /\ (freq.pc = "done" /\ FileAllFailed(freq) /\ ~FileCached(freq.section)) =>
        /\ freq.resp.statusCode = 502 /\ freq.resp.status = "error"
        /\ freq.resp.articles = <<>>

\* C3 witness: the cooldown handler answered 502 after an earlier request had
\* already failed (the cache file exists, without articles).
C3_Witness ==
  /\ req.pc = "done" /\ AllFailed(req) /\ ~req.cache.isNull
  /\ req.resp.statusCode = 502

\* C3, second witness state: the file-cache handler's 502.
C3_FileWitness ==
  /\ freq.pc = "done" /\ FileAllFailed(freq) /\ freq.resp.statusCode = 502

\* A step in which the cooldown handler takes up a request.
Begins == req.pc = "idle" /\ req'.pc # "idle"

SomeFailure(r) == \E i \in 1..Len(r.log) : r.log[i].kind = "fail"

\* C5: in both handlers a provider's failure never leaves the handler: the
\* handler is only ever at its own control points; while it loops, every
\* provider before the current one is logged as failed or skipped and the
\* current one is the next of the chain; it leaves the loop only with a
\* provider's articles or after the last provider; while it loops it can
\* always take the next iteration, and what it returns is a response object.
C5_FailuresContained ==
  /\ req.pc \in {"idle", "loop", "after", "done"}
  /\ freq.pc \in {"idle", "loop", "fallback", "done"}
  /\ req.pc = "loop" =>
       /\ req.idx = Len(req.log) + 1 /\ req.idx <= Len(MAP(req.section))
       /\ \A i \in 1..Len(req.log) :
            req.log[i].kind \in {"fail", "skip"} /\ req.log[i].p = MAP(req.section)[i]
       /\ req.resp = NoResp
  /\ freq.pc = "loop" =>
       /\ freq.idx = Len(freq.log) + 1 /\ freq.idx <= Len(PROVIDERS(freq.section))
       /\ \A i \in 1..Len(freq.log) :
            freq.log[i].kind \in {"fail", "skip"} /\ freq.log[i].p = PROVIDERS(freq.section)[i]
       /\ freq.resp = NoResp
  /\ req.pc = "after" => (req.got.some \/ Len(req.log) = Len(MAP(req.section)))
  /\ freq.pc = "fallback" => FileAllFailed(freq)
  /\ req.pc = "loop" => ENABLED LoopStep
  /\ freq.pc = "loop" => ENABLED FileLoopStep
  /\ req.pc = "done" => req.resp.statusCode \in {200, 304, 502}
  /\ freq.pc = "done" => freq.resp.statusCode \in {200, 502}

\* C5 witness: a provider threw, a later one timed out, and the request was
\* answered all the same.
C5_Witness ==
  /\ req.pc = "done" /\ SomeFailure(req) /\ req.out.kind = "timeout"
  /\ req.resp.statusCode = 502

\* C6: a request that finds an article in the section's cache and a
\* lastTriedAt less than COOLDOWN_MS old is answered at once from the cache
\* (the 200 with source "cache", or the 304), invokes no provider and leaves
\* every cache file as it is.
C6_CooldownServesCacheUntouched ==
  [][\A s \in Sections :
       (Begins /\ req'.section = s /\ Cached(s) /\ now - cache[s].lastTriedAt < COOLDOWN_MS) =>
          /\ req'.pc = "done" /\ req'.log = <<>> /\ req'.out = NoOut
          /\ cache' = cache
          /\ lastTrav' = lastTrav
          /\ \/ /\ req'.resp.statusCode = 200 /\ req'.resp.source = "cache"
                /\ req'.resp.articles = cache[s].articles
             \/ req'.resp.statusCode = 304]_vars

\* C6 witness: a request answered 200 from the cache inside the cooldown.
C6_Witness ==
  /\ req.pc = "done" /\ req.log = <<>> /\ req.resp.statusCode = 200
  /\ req.resp.source = "cache" /\ now - cache[req.section].lastTriedAt < COOLDOWN_MS
  /\ now > cache[req.section].lastTriedAt

ServedDirectly(r) == r.pc = "done" /\ r.log = <<>> /\ r.resp.statusCode \in {200, 304}

\* C8 as stated: the cache is served without a traversal only when the entry's
\* last successful write (updatedAt) is less than COOLDOWN_MS old.
C8_Original ==
  ServedDirectly(req) => now - cache[req.section].updatedAt < COOLDOWN_MS

\* C8 amended: the cache is served without a traversal only when the entry's
\* last attempt (lastTriedAt, set by every traversal, failed or not) is less
\* than COOLDOWN_MS old; a request that finds an entry whose lastTriedAt is
\* COOLDOWN_MS old or older always enters the provider loop.
C8_ServedDirectlyOnlyInsideLastTriedWindow ==
  /\ [](ServedDirectly(req) =>
          (cache[req.section].exists /\ now - cache[req.section].lastTriedAt < COOLDOWN_MS))
  /\ [][\A s \in Sections :
          (Begins /\ req'.section = s /\ now - cache[s].lastTriedAt >= COOLDOWN_MS) =>
             (req'.pc = "loop" /\ req'.idx = 1 /\ req'.resp = NoResp)]_vars

\* C8 witness: the cache is served directly although its last successful
\* write is older than the window (a failed traversal renewed lastTriedAt).
C8_Witness ==
  /\ ServedDirectly(req)
  /\ now - cache[req.section].updatedAt >= COOLDOWN_MS
  /\ now - cache[req.section].lastTriedAt < COOLDOWN_MS

\* C9 as stated: two provider-chain traversals for one section begin at least
\* COOLDOWN_MS apart, also when the earlier ones failed and nothing is cached.
C9_TraversalsCooldownApart ==
  [][\A s \in Sections :
       (Begins /\ req'.pc = "loop" /\ req'.section = s /\ lastTrav[s] >= 0) =>
          now - lastTrav[s] >= COOLDOWN_MS]_vars

\* C10: in every request's log a provider is marked skipped exactly when it
\* needs a key that the environment lacks; a skipped provider is followed by
\* the next provider of the chain and draws no provider outcome, and rss is
\* never skipped.
C10_MissingKeySkipsProvider ==
  LET chain == MAP(req.section)
      n == Len(req.log)
  IN /\ \A i \in 1..n :
          /\ req.log[i].p = chain[i]
          /\ (req.log[i].kind = "skip") <=> (KeyOf(chain[i]) # "" /\ KeyOf(chain[i]) \notin env)
          /\ chain[i] = "rss" => req.log[i].kind # "skip"
     /\ req.pc = "loop" => req.idx = n + 1
     /\ (n > 0 /\ \A i \in 1..n : req.log[i].kind = "skip") => req.out = NoOut
     /\ (req.pc = "done" /\ req.resp.source \notin {"", "cache"}) =>
           (KeyOf(req.resp.source) = "" \/ KeyOf(req.resp.source) \in env)

\* C10 witness: newsapi was skipped for its missing key and gnews, whose key
\* is present, was invoked after it.
C10_Witness ==
  /\ Len(req.log) >= 3
  /\ req.log[1].kind = "fail" /\ req.log[2].kind = "skip" /\ req.log[3].kind # "skip"

\* The step just taken was an iteration of the provider loop in which the
\* provider was called (not skipped) and settled with a list that sanitizes
\* to no article.
EmptyIteration ==
  /\ req.pc = "loop" /\ req' # req
  /\ Len(req'.log) = Len(req.log) + 1
  /\ Last(req'.log).kind # "skip"
  /\ req'.out.kind = "value"
  /\ sanitizeArticles(req'.out.raw, now) = <<>>

\* C11: in the cooldown/ETag handler a provider whose output sanitizes to no
\* valid article is a failed provider: the iteration is logged as a failure,
\* the loop moves to the next provider of the chain (or leaves the loop after
\* the last one), nothing is taken from it (got stays empty, the cache file
\* is untouched); what a request takes from a provider is never empty, and
\* no response with status "ok" carries an empty article list.
C11_EmptyResultIsFailure ==
  /\ [](req.got.some => Len(req.got.articles) > 0)
  /\ [](req.resp.status = "ok" => Len(req.resp.articles) > 0)
  /\ [][EmptyIteration =>
          /\ Last(req'.log) = [p |-> MAP(req.section)[req.idx], kind |-> "fail"]
          /\ req'.got = NoGot
          /\ req'.idx = req.idx + 1
          /\ req'.pc = (IF req.idx < Len(MAP(req.section)) THEN "loop" ELSE "after")
          /\ cache' = cache]_vars

\* C11 witness: rss answered with records that all lack a title, the loop is
\* at the second provider.
C11_Witness ==
  /\ req.pc = "loop" /\ req.idx = 2
  /\ req.out.kind = "value" /\ Len(req.out.raw) > 0
  /\ sanitizeArticles(req.out.raw, now) = <<>>
  /\ req.log = <<[p |-> "rss", kind |-> "fail"]>>

C13_FailedRequestKeepsCache ==
  [][/\ (req.pc = "after" /\ ~req.got.some /\ req'.pc = "done") =>
          /\ cache'[req.section] =
               [cache[req.section] EXCEPT !.exists = TRUE, !.lastTriedAt = now]
          /\ \A s \in Sections \ {req.section} : cache'[s] = cache[s]
     /\ \A s \in Sections :
          (variant = "cooldown" /\ (cache'[s].articles # cache[s].articles \/ cache'[s].etag # cache[s].etag)) =>
            /\ req.pc = "after" /\ req.got.some /\ Len(req.got.articles) > 0
            /\ s = req.section]_vars

\* C13 witness: every provider failed or was skipped, the cached articles
\* written by an earlier request are still there, lastTriedAt is new.
C13_Witness ==
  /\ req.pc = "done" /\ AllFailed(req)
  /\ Len(cache[req.section].articles) > 0
  /\ cache[req.section].etag # EmptyString
  /\ cache[req.section].lastTriedAt = now
  /\ cache[req.section].updatedAt < now

\* The providers of a section's chain.
ChainOf(s) == {MAP(s)[i] : i \in 1..Len(MAP(s))}

\* C14: in the cooldown/ETag handler every response with status "ok" has a
\* source that is "cache" or a provider of the requested section's chain.
C14_SourceIsCacheOrChainProvider ==
  (variant = "cooldown" /\ req.resp.status = "ok") =>
    req.resp.source \in {"cache"} \cup ChainOf(req.section)

\* C14 witness: a finance request answered by finnhub, the one provider only
\* the finance chain has.
C14_Witness ==
  /\ req.pc = "done" /\ req.resp.status = "ok"
  /\ req.section = "finance" /\ req.resp.source = "finnhub"

\* C15: in the blob-cache handler a request whose (lower-cased) section is
\* not a key of PROVIDERS is answered with HTTP 400, status "error", and
\* until then no provider was invoked and the store was neither read nor
\* written.
C15_UnknownSectionIs400 ==
  (variant = "blob" /\ breq.pc = "done" /\ ~hasOwnProperty(breq.section)) =>
    /\ breq.resp.statusCode = 400 /\ breq.resp.status = "error"
    /\ breq.calls = 0 /\ breq.reads = 0 /\ breq.writes = 0

\* The request has just passed lines 660-671: it answered from the cache or
\* stands before the first provider.
JustBegun(r) == r.pc \in {"loop", "done"} /\ r.log = <<>>

\* The section a parameter names when letter case and surrounding whitespace
\* are ignored; everything outside the whitelist names "frontpage".
Canonical(raw) == IF raw.word \in Sections THEN raw.word ELSE "frontpage"

\* C16: in the cooldown/ETag handler the section of a request, hence its
\* provider chain and its cache entry, depends on the parameter only up to
\* letter case and surrounding whitespace, and a parameter outside the
\* whitelist {frontpage, world, tech, finance} is handled as "frontpage":
\* the cache entry read is that section's file, a request that enters the
\* loop starts that section's chain, a cached answer is that section's.
C16_SectionIsCanonical ==
  (variant = "cooldown" /\ JustBegun(req)) =>
    /\ req.section = Canonical(req.raw)
    /\ req.cache.isNull = ~cache[Canonical(req.raw)].exists
    /\ req.cache.articles = cache[Canonical(req.raw)].articles
    /\ req.cache.etag = cache[Canonical(req.raw)].etag
    /\ req.cache.lastTriedAt = cache[Canonical(req.raw)].lastTriedAt
    /\ (req.pc = "loop" => MAP(req.section) = MAP(Canonical(req.raw)))
    /\ (req.pc = "done" /\ req.resp.statusCode = 200 =>
          req.resp.articles = cache[Canonical(req.raw)].articles)

\* C16 witness: "FINANCE" is answered from the cache entry of finance, which
\* differs from the entry of frontpage.
C16_Witness ==
  /\ JustBegun(req) /\ req.pc = "done"
  /\ req.raw = Param("finance", TRUE, TRUE)
  /\ req.resp.source = "cache"
  /\ req.resp.articles = cache["finance"].articles
  /\ cache["frontpage"].articles # cache["finance"].articles

\* C16 witness for the whitelist: "sports" starts the chain of frontpage.
C16_WitnessDefault ==
  /\ JustBegun(req) /\ req.pc = "loop"
  /\ req.raw = Param("sports", FALSE, FALSE)
  /\ req.section = "frontpage"

\* C17: sanitizeArticles is idempotent: applied to its own output, at the
\* same or at a later time, it returns the same list in the same order.
C17_SanitizeIdempotent ==
  (san.pc = "twice") => (san.twice = san.once)

\* C17 witness: a list with a record without date, two records of one url
\* and a record out of order was sanitized, and its output sanitized again
\* at a later time.
C17_Witness ==
  /\ san.pc = "twice" /\ now > san.at
  /\ san.arr = <<ANoDate, A1, A1f>>
  /\ Len(san.twice) = 2

\* The list is ordered newest first.
NonIncreasing(l) == \A i \in 1..(Len(l) - 1) : l[i].publishedAt >= l[i + 1].publishedAt

\* C18: the output of sanitizeArticles is non-increasing in publishedAt.
C18_SanitizeNewestFirst ==
  (san.pc \in {"once", "twice"}) => NonIncreasing(san.once)

\* C18 witness: three valid records handed over oldest first, one of them
\* with the same time as another, came out in another order.
C18_Witness ==
  /\ san.pc = "once"
  /\ san.arr = <<A1, A2, ATie>>
  /\ Len(san.once) = 3 /\ san.once # san.arr

\* C19: the output of sanitizeArticles holds at most one record per url up
\* to '#', and every record of it has a non-empty title and a non-empty url.
C19_SanitizeUniqueUrls ==
  (san.pc \in {"once", "twice"}) =>
    /\ \A i, j \in 1..Len(san.once) : (san.once[i].url = san.once[j].url) => (i = j)
    /\ \A i \in 1..Len(san.once) :
         /\ ~san.once[i].nul
         /\ san.once[i].title # 0
         /\ san.once[i].url # 0

\* C19 witness: of two records whose urls differ only after '#', and one
\* without title, only the first is kept.
C19_Witness ==
  /\ san.pc = "once"
  /\ san.arr = <<A1, ANoTitle, A1f>>
  /\ san.once = <<A1>>

\* The argument is null, undefined, "" or whitespace only.
EmptyAfterTrim(x) == x.nul \/ Trimmed(x) = 0

\* C20: norm returns null whenever the title or the url is empty after
\* trimming (whitespace-only values included), and otherwise a record whose
\* title and url are the trimmed, non-empty arguments.
C20_NormNullIffEmptyAfterTrim ==
  (nrm.pc = "normed") =>
    IF EmptyAfterTrim(nrm.title) \/ EmptyAfterTrim(nrm.url)
    THEN nrm.out = NullArt
    ELSE /\ ~nrm.out.nul
         /\ nrm.out.title = Trimmed(nrm.title) /\ nrm.out.title # 0
         /\ nrm.out.url = Trimmed(nrm.url) /\ nrm.out.url # 0

\* ---------------------------------------------------------------------------
\* C21: topMovers(universe, quoteMap, count) returns exactly the universe
\* tickers whose quote has a finite dp, ordered by absolute dp descending with
\* ties in universe order, truncated to the first count rows; a ticker with a
\* null, NaN or missing dp never appears.
\* ---------------------------------------------------------------------------
PosIn(t, universe) == CHOOSE i \in 1..Len(universe) : universe[i] = t

\* Row r stands before ticker t in the order of the claim.
Before(r, t, m, universe) ==
  \/ abs(r.dp) > abs(m[t].dp)
  \/ abs(r.dp) = abs(m[t].dp) /\ PosIn(r.ticker, universe) < PosIn(t, universe)

FiniteIn(universe, m) == {i \in 1..Len(universe) : m[universe[i]].has /\ m[universe[i]].typ = "number"}

C21_TopMoversContract ==
  (variant = "movers" /\ mov.pc = "done") =>
    LET u == mov.universe
        m == mov.map
        out == mov.out
        fin == FiniteIn(u, m)
    IN /\ \A i \in 1..Len(out) :
            /\ \E k \in fin : u[k] = out[i].ticker
            /\ out[i].dp = m[out[i].ticker].dp
       /\ Len(out) = IF Cardinality(fin) < mov.count THEN Cardinality(fin) ELSE mov.count
       /\ \A i, j \in 1..Len(out) : i < j => Before(out[i], out[j].ticker, m, u)
       /\ \A k \in fin :
            (\A i \in 1..Len(out) : out[i].ticker # u[k]) =>
              \A i \in 1..Len(out) : Before(out[i], u[k], m, u)

\* The example of the claim: A:+1, B:-5, C:+2, D:NaN with count 2 gives [B, C].
C21_Witness ==
  /\ variant = "movers" /\ mov.pc = "done"
  /\ mov.universe = <<"A", "B", "C", "D">>
  /\ mov.map = [t \in Tickers |-> CASE t = "A" -> Num(1) [] t = "B" -> Num(-5)
                                    [] t = "C" -> Num(2) [] OTHER -> NaN]
  /\ mov.count = 2
  /\ mov.out = <<[ticker |-> "B", dp |-> -5], [ticker |-> "C", dp |-> 2]>>

\* Ties keep the universe's order: C:-2 before A:+2 in the universe D, C, B, A.
C21_WitnessTie ==
  /\ variant = "movers" /\ mov.pc = "done"
  /\ mov.universe = <<"D", "C", "B", "A">>
  /\ Len(mov.out) >= 2
  /\ mov.out[1].ticker = "C" /\ mov.out[1].dp = -2
  /\ mov.out[2].ticker = "A" /\ mov.out[2].dp = 2

\* ---------------------------------------------------------------------------
\* C24: in the cooldown/ETag handler and the file-cache handler, a provider
\* result that arrives after the provider's timeout has fired is never used:
\* it is in no response and in no cache file, and the provider counts as
\* failed (the last provider called is logged as failed, only skipped ones
\* after it), so that the later providers or the cache decide the outcome.
\* ---------------------------------------------------------------------------
Holds(articles, a) == \E k \in 1..Len(articles) : articles[k].url = a.url

TimedOutAsFailure(r) ==
  r.out.kind = "timeout" =>
    /\ \E i \in 1..Len(r.log) :
         /\ r.log[i].kind = "fail"
         /\ \A j \in (i + 1)..Len(r.log) : r.log[j].kind = "skip"
    /\ r.pc \in {"loop", "after", "fallback", "done"}

C24_LateResultNeverUsed ==
  /\ variant = "cooldown" =>
       /\ ~Holds(req.resp.articles, ALate)
       /\ ~Holds(req.got.articles, ALate)
       /\ \A s \in Sections : ~Holds(cache[s].articles, ALate)
       /\ TimedOutAsFailure(req)
       /\ req.out.kind = "timeout" => ~req.got.some
  /\ variant = "file" =>
       /\ ~Holds(freq.resp.articles, ALate)
       /\ \A s \in Sections : ~Holds(fcache[s].articles, ALate)
       /\ TimedOutAsFailure(freq)

\* The last provider's result came late, and the cache answered.
C24_Witness ==
  /\ variant = "cooldown" /\ req.pc = "done"
  /\ req.out.kind = "timeout" /\ req.out.late
  /\ req.resp.status = "ok" /\ req.resp.source = "cache"

\* The same in the file-cache handler: the last provider's result came late
\* and the cache answered.
C24_WitnessFile ==
  /\ variant = "file" /\ freq.pc = "done"
  /\ freq.out.kind = "timeout" /\ freq.out.late
  /\ freq.resp.status = "ok" /\ freq.resp.source = "cache"

\* ---------------------------------------------------------------------------
\* C22: in the cooldown/ETag handler every request eventually receives a
\* response, even if every upstream provider never answers: each provider
\* call is given up after TIMEOUT_MS and counted as a failed provider, so the
\* chain reaches its end.
\* ---------------------------------------------------------------------------
C22_EveryRequestAnswered == (req.pc \in {"loop", "after"}) ~> (req.pc = "done")

\* A response after a chain in which every provider that was called timed out.
C22_Witness ==
  /\ variant = "cooldown" /\ req.pc = "done"
  /\ Len(req.log) = Len(MAP(req.section))
  /\ req.out.kind = "timeout" /\ ~req.out.late
  /\ \A i \in 1..Len(req.log) : req.log[i].kind = "fail"
  /\ req.resp.statusCode \in {200, 304, 502}

\* ---------------------------------------------------------------------------
\* C25: in the cooldown/ETag handler, in every reachable cache state an entry
\* with a non-empty etag holds at least one article and its etag is makeETag
\* of its articles; so a 304 is returned only when the client's If-None-Match
\* equals the ETag of the articles that would otherwise have been the body.
\* ---------------------------------------------------------------------------
ETagMatchesArticles ==
  variant = "cooldown" =>
    /\ \A s \in Sections :
         cache[s].etag # EmptyString =>
           /\ Len(cache[s].articles) >= 1
           /\ cache[s].etag = makeETag(cache[s].articles, now)
    /\ (req.pc = "done" /\ req.resp.statusCode = 304) =>
         /\ Len(req.cache.articles) >= 1
         /\ req.clientETag = makeETag(req.cache.articles, now)
         /\ req.resp.ETag = req.clientETag

C25_ETagMatchesArticles == []ETagMatchesArticles

\* A 304 for a client that sent the ETag of the cached articles, while the
\* cache file holds them.
C25_Witness ==
  /\ variant = "cooldown" /\ req.pc = "done" /\ req.resp.statusCode = 304
  /\ cache[req.section].etag # EmptyString
  /\ Len(cache[req.section].articles) >= 2
  /\ req.clientETag = cache[req.section].etag

\* ---------------------------------------------------------------------------
\* C23: in the cooldown/ETag handler, under any interleaving of concurrent
\* requests for one section, the cache entry holds articles and etag written
\* together by one request, the last successful writer wins, and the
\* touchLastTried of a failing request never reverts or empties the articles
\* another request wrote.
\* ---------------------------------------------------------------------------
\* Invocation i comes out of lines 690-705 in this step.
Finishes(i) == creq[i].pc # "done" /\ creq'[i].pc = "done" /\ creq'[i].log # <<>>

WrittenTogether ==
  variant = "race" =>
    \A s \in Sections :
      cache[s].etag # EmptyString =>
        /\ Len(cache[s].articles) >= 1
        /\ cache[s].etag = makeETag(cache[s].articles, now)

WriterWinsToucherKeeps ==
  \A i \in Invocations :
    (variant = "race" /\ Finishes(i)) =>
      LET r == creq'[i]
          s == r.section
      IN IF r.got.some
         THEN /\ cache'[s].articles = r.got.articles
              /\ cache'[s].etag = r.resp.ETag
              /\ cache'[s].updatedAt = now
         ELSE /\ cache'[s].lastTriedAt = now
              /\ cache[s].exists =>
                   /\ cache'[s].articles = cache[s].articles
                   /\ cache'[s].etag = cache[s].etag
                   /\ cache'[s].updatedAt = cache[s].updatedAt

C23_WholeWritesLastWriterWins == []WrittenTogether /\ [][WriterWinsToucherKeeps]_vars

\* Both invocations began before either wrote (both snapshots are the old
\* file); invocation 1 wrote new articles and invocation 2 failed: the file
\* holds the articles and the etag of invocation 1.
C23_Witness ==
  /\ variant = "race"
  /\ creq[1].pc = "done" /\ creq[1].got.some /\ creq[1].cache.updatedAt = 0
  /\ creq[2].pc = "done" /\ ~creq[2].got.some /\ creq[2].log # <<>>
  /\ creq[2].cache.updatedAt = 0 /\ ~creq[2].cache.isNull
  /\ Len(creq[1].got.articles) >= 2
  /\ cache[DEFAULT_SECTION].articles = creq[1].got.articles
  /\ cache[DEFAULT_SECTION].etag = creq[1].resp.ETag
  /\ cache[DEFAULT_SECTION].updatedAt = now

\* ---------------------------------------------------------------------------
\* C26: in the cooldown/ETag handler, under concurrent requests for one
\* section, a response with source "cache" (or a 304) produced after all
\* providers failed reflects the articles and etag stored in the cache at the
\* moment the response is produced, not an older snapshot.
\* ---------------------------------------------------------------------------
FallbackIsCurrent ==
  \A i \in Invocations :
    (variant = "race" /\ Finishes(i) /\ ~creq'[i].got.some /\ creq'[i].resp.statusCode \in {200, 304}) =>
      LET r == creq'[i]
          s == r.section
      IN /\ r.resp.ETag = cache'[s].etag
         /\ r.resp.statusCode = 200 => r.resp.articles = cache'[s].articles

C26_FallbackReflectsCurrentCache == [][FallbackIsCurrent]_vars

\* ---------------------------------------------------------------------------
\* C27: in the file-cache handler of part_003 every request, also one whose
\* section is no key of PROVIDERS, ends in a returned HTTP response (status
\* "ok" or a 502 error); the handler never throws.
\* ---------------------------------------------------------------------------
C27_Part3AlwaysResponds ==
  variant = "part3" =>
    /\ p3req.pc # "thrown"
    /\ p3req.pc = "done" => (p3req.resp.status = "ok" \/ p3req.resp.statusCode = 502)

\* ---------------------------------------------------------------------------
\* C28: in the nested-fallback handler a provider that answers successfully
\* with zero articles counts as a failed provider and the next one is tried,
\* so every status "ok" response carries at least one article.
\* ---------------------------------------------------------------------------
C28_NestedOkHasArticles ==
  (variant = "nested" /\ nreq.pc = "done" /\ nreq.resp.status = "ok") =>
    Len(nreq.resp.articles) >= 1

\* ---------------------------------------------------------------------------
\* C29: in the nested-fallback handler a failure of the cache write after a
\* successful provider fetch never fails the request: the fetched articles
\* are still returned with HTTP 200.
\* ---------------------------------------------------------------------------
C29_NestedWriteFailureIgnored ==
  [][(variant = "nested" /\ nreq.pc = "set") =>
       (nreq'.pc = "done" /\ nreq'.resp.statusCode = 200 /\ nreq'.resp.articles = nreq.articles)]_vars

HasQuotes(data) ==
  /\ data # NoData
  /\ Len(data.indices) + Len(data.movers.ai) + Len(data.movers.crypto)
       + Len(data.movers.energy) > 0

\* ---------------------------------------------------------------------------
\* C31: in the Finnhub-then-Yahoo market-data handler the cache file is
\* overwritten only by a live result that holds at least one quote: whenever
\* a step changes the cache file, the new content has a quote (so an empty
\* Yahoo result list never replaces a cached payload with quotes).
\* ---------------------------------------------------------------------------
C31_CacheOverwrittenOnlyWithQuotes ==
  [][(variant = "md" /\ mcache' # mcache) => HasQuotes(mcache')]_vars

\* A payload of part_012 that holds at least one quote.
P12HasQuotes(payload) ==
  Len(payload.data.macro) + Len(payload.data.indices) + payload.data.ai
    + payload.data.crypto + payload.data.energy > 0

\* ---------------------------------------------------------------------------
\* C32: in the market-data handler of part_012, once the cache holds a
\* payload with quotes, a request is never answered with a payload without
\* any quote and the cache never comes to hold one (when every upstream call
\* fails, the cached payload is returned and kept).
\* ---------------------------------------------------------------------------
C32_AllFailedServesCache ==
  [][(variant = "p12" /\ mcache # NoData /\ P12HasQuotes(mcache.payload)) =>
       /\ P12HasQuotes(mcache'.payload)
       /\ mreq'.pc = "done" => P12HasQuotes(mreq'.resp)]_vars

\* ---------------------------------------------------------------------------
\* C33: the market-data handler of part_015 never hard-fails the response
\* shape: every response is HTTP 200 with status "ok" and a data object that
\* has macro, indices, ai, crypto, energy and movers{ai, crypto, energy},
\* whatever the upstream calls did and whatever this handler cached before.
\* ---------------------------------------------------------------------------
C33_ResponseShapeKept ==
  (variant = "p15" /\ mreq.pc = "done") =>
    /\ mreq.resp.statusCode = 200
    /\ mreq.resp.body # NoData
    /\ mreq.resp.body.status = "ok"
    /\ {"macro", "indices", "ai", "crypto", "energy", "movers"}
         \subseteq DOMAIN mreq.resp.body.data
    /\ {"ai", "crypto", "energy"} \subseteq DOMAIN mreq.resp.body.data.movers

\* C33 witnesses: an upstream call failed and there is no cache; an upstream
\* call failed and the cache holds an earlier payload, by now stale.
C33_Witness ==
  variant = "p15" /\ mreq.pc = "done" /\ mreq.caught /\ mcache = NoData

C33_WitnessCached ==
  /\ variant = "p15" /\ mreq.pc = "done" /\ mreq.caught
  /\ mcache # NoData /\ now - mcache.ts > P15_TTL_MS

\* A step that starts an invocation of the mini-market handler.
P5Starts == variant = "p5" /\ mreq.pc = "idle" /\ mreq'.pc # "idle"

\* Without force=1, a cache entry no older than TTL_MS is returned as it is,
\* with no upstream call and no write.
FreshCacheServed ==
  (P5Starts /\ ~mreq'.force /\ mcache # NoData /\ now - mcache.ts <= P5_TTL_MS) =>
    /\ mreq'.pc = "done"
    /\ mreq'.resp = [statusCode |-> 200, body |-> mcache.payload]
    /\ mreq'.calls = <<>>
    /\ mcache' = mcache

\* With force=1 the upstream calls are made, and the cached payload is the
\* answer only if the fetch failed (both lookups rejected).
ForceFetches ==
  (variant = "p5" /\ mreq.pc # "idle" /\ mreq.force) =>
    /\ Len(mreq.calls) >= 2
    /\ mreq.pc = "done" =>
         IF mreq.btc.st = "rejected" /\ mreq.xau.st = "rejected"
         THEN mreq.caught /\ mreq.resp = P5Caught(mcache)
         ELSE ~mreq.caught /\ mreq.resp.body = P5Payload(mreq.btc, mreq.xau)

C34_WitnessForce ==
  /\ variant = "p5" /\ mreq.pc = "done" /\ mreq.force /\ mreq.caught
  /\ mcache # NoData /\ mreq.at - mcache.ts <= P5_TTL_MS
  /\ mreq.resp.body = mcache.payload

\* The gold providers called so far by the invocation, in call order.
GoldCalls == SelectSeq(mreq.calls, LAMBDA p : p # "binance")

HasPrices(payload) == payload.data.btcUSD # NullPrice \/ payload.data.xauUSD # NullPrice

C37_TopMoverIsLargestFinite ==
  (variant = "mover1" /\ mov.pc = "done") =>
    LET u == mov.universe
        m == mov.map
        fin == FiniteIn(u, m)
    IN IF fin = {} THEN mov.out = <<>>
       ELSE /\ Len(mov.out) = 1
            /\ \E k \in fin : u[k] = mov.out[1].ticker /\ m[u[k]].dp = mov.out[1].dp
            /\ \A k \in fin : abs(m[u[k]].dp) <= abs(mov.out[1].dp)

\* The movers rows of all three universes.
MoverRows == mreq.movers.ai \o mreq.movers.crypto \o mreq.movers.energy

FirstRefusal(e) ==
  CASE e.httpMethod = "OPTIONS" -> 204
    [] {"ZAPIER_WEBHOOK_URL", "SECRET_KEY"} \ env # {} -> 500
    [] e.httpMethod \notin {"GET", "POST"} -> 405
    [] Inputs(e).secret # SECRET_KEY -> 401
    [] Inputs(e).title = "" \/ Inputs(e).url = "" -> 400
    [] OTHER -> 0

\* ---------------------------------------------------------------------------
\* C39: in the add-link handler the Zapier webhook is called only when the
\* method is GET or POST, ZAPIER_WEBHOOK_URL and SECRET_KEY are configured,
\* the provided secret equals SECRET_KEY and title and url are non-empty;
\* every other request is answered with 204, 500, 405, 401 or 400, whichever
\* check fails first in that order, without any outbound call.  (A POST
\* whose JSON body does not parse is answered by the catch block, also
\* without a call.)
\* ---------------------------------------------------------------------------
C39_WebhookOnlyForValidRequests ==
  (variant = "link" /\ mreq.pc # "idle") =>
    LET e == mreq.event IN
      /\ mreq.calls = 1 <=>
           (FirstRefusal(e) = 0 /\ (e.httpMethod = "POST" => e.parses))
      /\ mreq.calls \in {0, 1}
      /\ (mreq.pc = "done" /\ mreq.calls = 0) => mreq.statusCode = FirstRefusal(e)
      /\ (mreq.pc = "caught" /\ mreq.calls = 0) => ~e.parses

\* C39 witnesses: a POST with the secret in the x-secret header and title
\* and url in a form body reaches the webhook; a GET with a wrong secret in
\* the query and the right one in the header is refused with 401.
C39_Witness ==
  /\ variant = "link" /\ mreq.pc = "done" /\ mreq.calls = 1 /\ mreq.statusCode = 200
  /\ mreq.event.httpMethod = "POST" /\ mreq.event.body.secret = ""
  /\ mreq.event.xsecret = "right"

C39_WitnessRefused ==
  /\ variant = "link" /\ mreq.pc = "done" /\ mreq.calls = 0 /\ mreq.statusCode = 401
  /\ mreq.event.httpMethod = "GET" /\ mreq.event.query.secret = "wrong"
  /\ mreq.event.xsecret = "right" /\ mreq.event.query.title = "T"

\* ---------------------------------------------------------------------------
\* C40: in the dashboard client with ETag support, whenever fetchNews gets a
\* 304 for a section, the section's list shows the articles that belong to
\* the ETag that was sent, after any sequence of page loads and refreshes,
\* a page load that finds an ETag in localStorage included.
\* ---------------------------------------------------------------------------
C40_NotModifiedKeepsCurrentArticles ==
  (variant = "client" /\ web.pc = "shown" /\ web.status = 304) => web.dom = web.sent

=============================================================================
